---- MODULE Spec2Model ----
(***************************************************************************)
(* Query Engine Service (llm_service/src/services/query_service.py).       *)
(*                                                                         *)
(* Five specifications share this module:                                  *)
(*   SpecIdx   _generate_index_data and the thread pool of                 *)
(*             _get_embedding_batched, one step per statement that another *)
(*             thread can interleave with, on a clock of pacing delays;    *)
(*   Spec      query_engine_build invocations running concurrently against *)
(*             one metadata store and one staging storage;                 *)
(*   SpecOne   one query_engine_build invocation, with larger documents;   *)
(*   SpecLive  the runs of SpecIdx and of Spec under fair scheduling;      *)
(*   SpecQuery query_generate against the records of a built engine.       *)
(* A text chunk is a natural number (its identity); the embedding service  *)
(* maps chunk t to the vector Vec(t), or fails for a whole request.        *)
(***************************************************************************)
EXTENDS Integers, Sequences, FiniteSets, TLC

\* ---------------------------------------------------------------- bounds
\* most chunks of one document in SpecIdx
MaxChunks == 5
\* largest index_base _generate_index_data is called with in SpecIdx
MaxBase == 1
\* most worker threads of the ThreadPoolExecutor (its default size depends
\* on the machine: min(32, cpu_count + 4))
MaxWorkers == 2
\* longest time.sleep(seconds_per_job) takes, in pacing delays (it takes at
\* least one)
MaxSleep == 2
\* latest time, in pacing delays, up to which the wait for a future's
\* result is followed
MaxClock == 4

\* ------------------------------------------------------ program constants
\* number of text chunks to process into an embeddings file (1000 in the
\* source; 4 here, so that a document of MaxChunks chunks spans two files)
MAX_NUM_TEXT_CHUNK_PROCESS == 4
\* texts per embedding request (5 in the source; 2 here, so that one file
\* spans several requests)
ITEMS_PER_REQUEST == 2

\* ======================================================================
\* State
\* ======================================================================
\* -- of _generate_index_data (SpecIdx)
VARIABLES
  doc_chunks,       \* the argument text_chunks
  base0,            \* the argument index_base, as passed
  g_index_base,     \* the local index_base (advanced per file)
  chunk_index,      \* chunk_index
  process_chunks,   \* text_chunks[chunk_index:end_chunk_index]
  ids,              \* np.arange(index_base, index_base + len(process_chunks))
  embeddings_dir,   \* 0: the name is unbound; k: the k-th tempfile.mkdtemp()
  futures,          \* the futures list: [batch, state, result] each
  embeddings_list,  \* embeddings_list of _get_embedding_batched
  ncollected,       \* futures already taken by `for future in futures`
  written,          \* files written so far: [dir, base, records] each
  enc_log,          \* per chunk of the document: what the service answered
  finish_order,     \* the futures of this pool in the order they completed
  gpc,              \* the orchestrating thread's position
  clock,            \* the time, in units of seconds_per_job
  max_workers,      \* the size of the ThreadPoolExecutor
  submitted_at,     \* per future of this pool, the time of executor.submit
  call_starts       \* the times at which the embedding-service calls of
                    \* this run started, in order

idxVars == <<doc_chunks, base0, g_index_base, chunk_index, process_chunks, ids,
             embeddings_dir, futures, embeddings_list, ncollected, written,
             enc_log, finish_order, gpc, clock, max_workers, submitted_at,
             call_starts>>

\* the timing of the run
timeVars == <<clock, max_workers, submitted_at, call_starts>>

\* -- of query_engine_build (Spec)
\* the invocations of query_engine_build (one batch job each)
Builds == {1, 2}
\* the engine names the invocations are called with
Names == {"qe"}
\* the document ids the metadata store hands out to QueryEngine records
EngineIds == {1, 2}
\* the numbers of documents _download_files_to_local may list when two
\* builds run (Spec), and when one build runs alone (SpecOne)
SmallDocCounts == {0, 1}
LargeDocCounts == {0, 1, 2}
\* the stems of the blobs' base names
Stems == {"a", "b"}
\* the numbers of chunks of a text document when two builds run (Spec)
SmallDocChunkCounts == {0, 1}
\* ... and when one build runs alone (SpecOne): none, one request, two
\* requests, two embedding files
LargeDocChunkCounts == {0, 1, 3, 5}

VARIABLES
  engines,   \* the QueryEngine collection: [id, name, index_by]
  qdocs,     \* the QueryDocument collection:
             \*   [id, query_engine_id, doc_url, index_start, index_end]
  qchunks,   \* the QueryDocumentChunk collection:
             \*   [id, query_engine_id, query_document_id, index, text]
  bucket,    \* per engine name, the staging bucket: [exists, blobs]
  aip,       \* the matching engine resources created: [kind, by]
  build      \* per invocation, its locals (see BuildInit)

buildVars == <<engines, qdocs, qchunks, bucket, aip, build>>

\* -- of query_generate (SpecQuery)
VARIABLES
  qpc,               \* the position of the query_generate call
  q_engine,          \* the argument q_engine (its id)
  match_indexes,     \* match_indexes_list[0], the neighbor ids in order
  nmatched,          \* matches already taken by `for match in match_indexes`
  query_references,  \* query_references: [document_id, document_url,
                     \*   document_text, chunk_id] each
  query_ref_ids,     \* query_ref_ids
  qrefs,             \* the QueryReference collection, in order of creation
  qresults,          \* the QueryResult collection, in order of creation
  user_query,        \* the UserQuery: [saved, history]
  q_exc              \* the exception query_generate raised ("" if none)

queryVars == <<qpc, q_engine, match_indexes, nmatched, query_references,
               query_ref_ids, qrefs, qresults, user_query, q_exc>>

vars == <<idxVars, buildVars, queryVars>>

\* the locals of the loop body of _process_documents when no document is
\* being processed
NoDoc ==
  [url |-> 0, text_chunks |-> <<>>, new_index_base |-> 0, embeddings_dir |-> 0,
   chunk_index |-> 0, all_files |-> <<>>, oks |-> <<>>,
   files |-> {}, kind |-> "", written |-> {}, nsaved |-> 0]

\* no query in progress
QueryIdle ==
  /\ qpc = "idle"
  /\ q_engine = 0
  /\ match_indexes = <<>>
  /\ nmatched = 0
  /\ query_references = <<>>
  /\ query_ref_ids = <<>>
  /\ qrefs = <<>>
  /\ qresults = <<>>
  /\ user_query = [saved |-> FALSE, history |-> <<>>]
  /\ q_exc = ""

\* SpecIdx leaves the build alone; Spec leaves the index-data run alone
BuildIdle ==
  /\ engines = {}
  /\ qdocs = {}
  /\ qchunks = {}
  /\ bucket = [n \in Names |-> [exists |-> FALSE, blobs |-> {}]]
  /\ aip = {}
  /\ build = [p \in Builds |->
                [pc |-> "idle", name |-> "", q_engine |-> 0, bdi_engine |-> 0,
                 listed |-> FALSE, ndocs |-> 0, index_base |-> 0,
                 docs_processed |-> <<>>, docs_not_processed |-> <<>>,
                 handled |-> <<>>, exc |-> "",
                 nblobs |-> 0, failed_download |-> 0,
                 doc_names |-> <<>>,
                 staged |-> {}, tmpdirs |-> {}, cur |-> NoDoc]]

IdxIdle ==
  /\ doc_chunks = <<>>
  /\ base0 = 0
  /\ g_index_base = 0
  /\ chunk_index = 0
  /\ process_chunks = <<>>
  /\ ids = <<>>
  /\ embeddings_dir = 0
  /\ futures = <<>>
  /\ embeddings_list = <<>>
  /\ ncollected = 0
  /\ written = <<>>
  /\ enc_log = <<>>
  /\ finish_order = <<>>
  /\ gpc = "idle"
  /\ clock = 0
  /\ max_workers = 1
  /\ submitted_at = <<>>
  /\ call_starts = <<>>


\* ------------------------------------------------------------- helpers
Min(a, b) == IF a < b THEN a ELSE b

\* Python's None, as an embedding entry
None == <<>>

\* embedding.values of the vector the service returns for text t
Vec(t) == <<t>>

\* a[lo:hi] of Python (0-based, hi exclusive, clipped to the list)
Slice(a, lo, hi) == SubSeq(a, lo + 1, Min(hi, Len(a)))

\* range(lo, hi) / np.arange(lo, hi) as a sequence
Arange(lo, hi) == [i \in 1..(IF hi > lo THEN hi - lo ELSE 0) |-> lo + i - 1]

\* zip(a, b): pairs up to the shorter length
Zip(a, b) == [i \in 1..Min(Len(a), Len(b)) |-> <<a[i], b[i]>>]

\* the entries of s kept by the predicate keep(i), in order
RECURSIVE KeepFrom(_, _, _)
KeepFrom(s, keep, i) ==
  IF i > Len(s) THEN <<>>
  ELSE (IF keep[i] THEN <<s[i]>> ELSE <<>>) \o KeepFrom(s, keep, i + 1)

\* ids[is_successful]: numpy boolean-mask indexing
MaskSelect(id_arr, mask) == KeepFrom(id_arr, mask, 1)

\* ------------------------------------------------ _encode_texts_to_embeddings
\* what one call can do: "ok", model.get_embeddings returns; "failed", it
\* raises inside the try and the call returns one None per text; "raised",
\* TextEmbeddingModel.from_pretrained raises, outside the try, and so does
\* the call
EncodeResults == {"ok", "failed", "raised"}

\* exc: the exception the call raises ("" if it returns); values: the list
\* it returns
EncodeTextsToEmbeddings(sentence_list, res) ==
  [exc |-> IF res = "raised" THEN "RuntimeError" ELSE "",
   values |-> IF res = "ok"
              THEN [i \in 1..Len(sentence_list) |-> Vec(sentence_list[i])]
              ELSE IF res = "failed"
              THEN [i \in 1..Len(sentence_list) |-> None]
              ELSE <<>>]

\* ---------------------------------------------------------- _generate_batches
NumBatches(n, batch_size) == (n + batch_size - 1) \div batch_size

GenerateBatches(text_chunks, batch_size) ==
  [k \in 1..NumBatches(Len(text_chunks), batch_size) |->
     Slice(text_chunks, (k - 1) * batch_size, k * batch_size)]

\* ------------------------------------------- _get_embedding_batched, the tail
\* is_successful = [embedding is not None for _, embedding in zip(...)]
IsSuccessful(text_chunks, emb_list) ==
  [i \in 1..Len(Zip(text_chunks, emb_list)) |-> emb_list[i] # None]

\* [embedding for embedding in embeddings_list if embedding is not None]
SuccessfulEmbeddings(emb_list) ==
  KeepFrom(emb_list, [i \in 1..Len(emb_list) |-> emb_list[i] # None], 1)

\* np.stack raises ValueError on an empty list
StackRaises(emb_list) == SuccessfulEmbeddings(emb_list) = <<>>

\* ------------------------------------------- _generate_index_data, one file
\* a variant that pairs the vectors with the first ids instead of the
\* successful ones: zip(ids, chunk_embeddings)
EmbeddingsFormattedUnmasked(id_arr, is_successful, chunk_embeddings) ==
  LET z == Zip(id_arr, chunk_embeddings)
  IN  [i \in 1..Len(z) |-> [id |-> z[i][1], embedding |-> z[i][2]]]

\* the JSON lines of one embeddings file:
\* zip(ids[is_successful], chunk_embeddings)
EmbeddingsFormatted(id_arr, is_successful, chunk_embeddings) ==
  LET z == Zip(MaskSelect(id_arr, is_successful), chunk_embeddings)
  IN  [i \in 1..Len(z) |-> [id |-> z[i][1], embedding |-> z[i][2]]]

\* ------------------------------------- _get_embedding_batched as a function
\* the futures' results concatenated in submission order; oks[k] is what
\* the k-th request did (one of EncodeResults)
RECURSIVE Gather(_, _, _)
Gather(batches, oks, k) ==
  IF k > Len(batches) THEN <<>>
  ELSE EncodeTextsToEmbeddings(batches[k], oks[k]).values
         \o Gather(batches, oks, k + 1)

\* exc: the exception of the first future whose result() raises, else
\* ValueError when np.stack has nothing to stack, else ""
GetEmbeddingBatched(text_chunks, batch_size, oks) ==
  LET batches == GenerateBatches(text_chunks, batch_size)
      el == Gather(batches, oks, 1)
      exc == IF \E k \in 1..Len(batches) : oks[k] = "raised"
             THEN "RuntimeError"
             ELSE IF StackRaises(el) THEN "ValueError" ELSE ""
  IN  [raises |-> exc # "",
       exc |-> exc,
       is_successful |-> IsSuccessful(text_chunks, el),
       embeddings |-> SuccessfulEmbeddings(el)]

\* --------------------------------------- _generate_index_data as a function
\* oks[g][k]: what the k-th request of the g-th file did.
\* exc: "" when the call returns, else the exception it raises.
RECURSIVE GenIdx(_, _, _, _, _, _)
GenIdx(text_chunks, index_base, oks, chunk_idx, dir, files) ==
  IF chunk_idx >= Len(text_chunks)
  THEN [exc |-> IF dir = 0 THEN "UnboundLocalError" ELSE "",
        index_base |-> index_base, embeddings_dir |-> dir, files |-> files]
  ELSE
    LET chunk_size == Min(MAX_NUM_TEXT_CHUNK_PROCESS, Len(text_chunks) - chunk_idx)
        pchunks == Slice(text_chunks, chunk_idx, chunk_idx + chunk_size)
        pids == Arange(index_base, index_base + Len(pchunks))
        r == GetEmbeddingBatched(pchunks, ITEMS_PER_REQUEST, oks[dir + 1])
    IN  IF r.raises
        THEN [exc |-> r.exc, index_base |-> index_base,
              embeddings_dir |-> dir + 1, files |-> files]
        ELSE GenIdx(text_chunks, index_base + Len(pchunks), oks,
                    chunk_idx + Len(pchunks), dir + 1,
                    Append(files,
                      [dir |-> dir + 1, base |-> index_base,
                       records |-> EmbeddingsFormatted(pids, r.is_successful,
                                                       r.embeddings)]))

GenerateIndexData(text_chunks, index_base, oks) ==
  GenIdx(text_chunks, index_base, oks, 0, 0, <<>>)

\* number of files a document of n chunks is split into
NumFiles(n) == NumBatches(n, MAX_NUM_TEXT_CHUNK_PROCESS)

\* number of requests of the g-th file of a document of n chunks
NumRequests(n, g) ==
  NumBatches(Min(MAX_NUM_TEXT_CHUNK_PROCESS,
                 n - (g - 1) * MAX_NUM_TEXT_CHUNK_PROCESS), ITEMS_PER_REQUEST)

\* ======================================================================
\* SpecIdx: _generate_index_data(doc_name, text_chunks, index_base)
\* ======================================================================
\* the call: arguments and locals before the first iteration
Called ==
  /\ doc_chunks \in {Arange(1, n + 1) : n \in 0..MaxChunks}
  /\ base0 \in 0..MaxBase
  /\ g_index_base = base0
  /\ chunk_index = 0
  /\ process_chunks = <<>>
  /\ ids = <<>>
  /\ embeddings_dir = 0
  /\ futures = <<>>
  /\ embeddings_list = <<>>
  /\ ncollected = 0
  /\ written = <<>>
  /\ enc_log = [j \in 1..Len(doc_chunks) |-> "pending"]
  /\ finish_order = <<>>
  /\ gpc = "while"
  /\ clock = 0
  /\ max_workers \in 1..MaxWorkers
  /\ submitted_at = <<>>
  /\ call_starts = <<>>

\* while chunk_index < num_chunks: the head of one iteration, up to the
\* ThreadPoolExecutor being entered
NextGroup ==
  /\ gpc = "while"
  /\ chunk_index < Len(doc_chunks)
  /\ LET remaining_chunks == Len(doc_chunks) - chunk_index
         chunk_size == Min(MAX_NUM_TEXT_CHUNK_PROCESS, remaining_chunks)
         end_chunk_index == chunk_index + chunk_size
         pchunks == Slice(doc_chunks, chunk_index, end_chunk_index)
     IN  /\ process_chunks' = pchunks
         /\ ids' = Arange(g_index_base, g_index_base + Len(pchunks))
  /\ embeddings_dir' = embeddings_dir + 1
  /\ futures' = <<>>
  /\ embeddings_list' = <<>>
  /\ ncollected' = 0
  /\ finish_order' = <<>>
  /\ gpc' = "submit"
  /\ submitted_at' = <<>>
  /\ UNCHANGED <<doc_chunks, base0, g_index_base, chunk_index, written, enc_log,
                 clock, max_workers, call_starts>>
  /\ UNCHANGED buildVars
  /\ UNCHANGED queryVars

\* the loop is over: return index_base, embeddings_dir. The name
\* embeddings_dir is bound only inside the loop.
Return ==
  /\ gpc = "while"
  /\ chunk_index >= Len(doc_chunks)
  /\ gpc' = IF embeddings_dir = 0 THEN "UnboundLocalError" ELSE "returned"
  /\ UNCHANGED <<finish_order, doc_chunks, base0, g_index_base, chunk_index,
                 process_chunks,
                 ids, embeddings_dir, futures, embeddings_list, ncollected,
                 written, enc_log>>
  /\ UNCHANGED timeVars
  /\ UNCHANGED buildVars
  /\ UNCHANGED queryVars

\* futures.append(executor.submit(_encode_texts_to_embeddings, batch))
Submit ==
  /\ gpc = "submit"
  /\ LET batches == GenerateBatches(process_chunks, ITEMS_PER_REQUEST)
     IN  futures' = Append(futures, [batch |-> batches[Len(futures) + 1],
                                     state |-> "queued", result |-> <<>>,
                                     exc |-> ""])
  /\ submitted_at' = Append(submitted_at, clock)
  /\ gpc' = "sleep"
  /\ UNCHANGED <<finish_order, doc_chunks, base0, g_index_base, chunk_index,
                 process_chunks,
                 ids, embeddings_dir, embeddings_list, ncollected, written,
                 enc_log>>
  /\ UNCHANGED <<clock, max_workers, call_starts>>
  /\ UNCHANGED buildVars
  /\ UNCHANGED queryVars

\* the futures whose call is in progress
Running == {k \in 1..Len(futures) : futures[k].state = "running"}

\* a work item is waiting although a worker is free: the worker takes it
\* before any time passes
StartDue ==
  /\ \E k \in 1..Len(futures) : futures[k].state = "queued"
  /\ Cardinality(Running) < max_workers

\* a variant that paces only when every worker is busy
SleepWhenBusy(d) ==
  /\ gpc = "sleep"
  /\ ~StartDue
  /\ clock' = IF Cardinality(Running) < max_workers THEN clock ELSE clock + d
  /\ gpc' = IF Len(futures) < NumBatches(Len(process_chunks), ITEMS_PER_REQUEST)
            THEN "submit" ELSE "collect"
  /\ UNCHANGED <<finish_order, doc_chunks, base0, g_index_base, chunk_index,
                 process_chunks,
                 ids, embeddings_dir, futures, embeddings_list, ncollected,
                 written, enc_log>>
  /\ UNCHANGED <<max_workers, submitted_at, call_starts>>
  /\ UNCHANGED <<max_workers, submitted_at, call_starts>>
  /\ UNCHANGED buildVars
  /\ UNCHANGED queryVars

\* time.sleep(seconds_per_job), which takes d >= 1 pacing delays; then the
\* next batch of the generator if any
Sleep(d) ==
  /\ gpc = "sleep"
  /\ ~StartDue
  /\ clock' = clock + d
  /\ gpc' = IF Len(futures) < NumBatches(Len(process_chunks), ITEMS_PER_REQUEST)
            THEN "submit" ELSE "collect"
  /\ UNCHANGED <<finish_order, doc_chunks, base0, g_index_base, chunk_index,
                 process_chunks,
                 ids, embeddings_dir, futures, embeddings_list, ncollected,
                 written, enc_log>>
  /\ UNCHANGED <<max_workers, submitted_at, call_starts>>
  /\ UNCHANGED buildVars
  /\ UNCHANGED queryVars

\* a free worker takes the oldest queued work item
WorkerStart(k) ==
  /\ futures[k].state = "queued"
  /\ \A j \in 1..(k - 1) : futures[j].state # "queued"
  /\ Cardinality(Running) < max_workers
  /\ futures' = [futures EXCEPT ![k].state = "running"]
  /\ call_starts' = Append(call_starts, clock)
  /\ UNCHANGED <<finish_order, doc_chunks, base0, g_index_base, chunk_index,
                 process_chunks,
                 ids, embeddings_dir, embeddings_list, ncollected, written,
                 enc_log, gpc>>
  /\ UNCHANGED <<clock, max_workers, submitted_at>>
  /\ UNCHANGED buildVars
  /\ UNCHANGED queryVars

\* the worker's call of _encode_texts_to_embeddings returns or raises: the
\* future holds the list or the exception
WorkerFinish(k, res) ==
  /\ futures[k].state = "running"
  /\ LET r == EncodeTextsToEmbeddings(futures[k].batch, res)
     IN  futures' = [futures EXCEPT ![k].state = "done",
                                    ![k].result = r.values,
                                    ![k].exc = r.exc]
  /\ enc_log' = [j \in 1..Len(doc_chunks) |->
                   IF /\ j > chunk_index + (k - 1) * ITEMS_PER_REQUEST
                      /\ j <= chunk_index + (k - 1) * ITEMS_PER_REQUEST
                                + Len(futures[k].batch)
                   THEN res
                   ELSE enc_log[j]]
  /\ finish_order' = Append(finish_order, k)
  /\ UNCHANGED <<doc_chunks, base0, g_index_base, chunk_index, process_chunks,
                 ids, embeddings_dir, embeddings_list, ncollected, written, gpc>>
  /\ UNCHANGED timeVars
  /\ UNCHANGED buildVars
  /\ UNCHANGED queryVars

\* a variant that takes the futures as they complete
\* (concurrent.futures.as_completed) instead of in submission order
CollectAsCompleted ==
  /\ gpc = "collect"
  /\ ncollected < Len(finish_order)
  /\ embeddings_list' =
       embeddings_list \o futures[finish_order[ncollected + 1]].result
  /\ ncollected' = ncollected + 1
  /\ UNCHANGED <<finish_order, doc_chunks, base0, g_index_base, chunk_index,
                 process_chunks, ids, embeddings_dir, futures, written,
                 enc_log, gpc>>
  /\ UNCHANGED timeVars
  /\ UNCHANGED buildVars
  /\ UNCHANGED queryVars

\* for future in futures: embeddings_list.extend(future.result());
\* result() re-raises the exception of a call that raised, which leaves the
\* loop for the end of the with-block
Collect ==
  /\ gpc = "collect"
  /\ ncollected < Len(futures)
  /\ futures[ncollected + 1].state = "done"
  /\ IF futures[ncollected + 1].exc # ""
     THEN /\ gpc' = "unwind"
          /\ UNCHANGED <<embeddings_list, ncollected>>
     ELSE /\ embeddings_list' =
               embeddings_list \o futures[ncollected + 1].result
          /\ ncollected' = ncollected + 1
          /\ UNCHANGED gpc
  /\ UNCHANGED <<finish_order, doc_chunks, base0, g_index_base, chunk_index,
                 process_chunks,
                 ids, embeddings_dir, futures, written, enc_log>>
  /\ UNCHANGED timeVars
  /\ UNCHANGED buildVars
  /\ UNCHANGED queryVars

\* a variant that leaves the pool once the batches are submitted, without
\* taking the results and with executor.shutdown(wait=False)
ExitPoolNoWait ==
  /\ gpc = "collect"
  /\ gpc' = "stack"
  /\ UNCHANGED <<finish_order, doc_chunks, base0, g_index_base, chunk_index,
                 process_chunks,
                 ids, embeddings_dir, futures, embeddings_list, ncollected,
                 written, enc_log>>
  /\ UNCHANGED timeVars
  /\ UNCHANGED buildVars
  /\ UNCHANGED queryVars

\* the with-block ends: executor.shutdown(wait=True)
ExitPool ==
  /\ gpc = "collect"
  /\ ncollected = Len(futures)
  /\ \A k \in 1..Len(futures) : futures[k].state = "done"
  /\ gpc' = "stack"
  /\ UNCHANGED <<finish_order, doc_chunks, base0, g_index_base, chunk_index,
                 process_chunks,
                 ids, embeddings_dir, futures, embeddings_list, ncollected,
                 written, enc_log>>
  /\ UNCHANGED timeVars
  /\ UNCHANGED buildVars
  /\ UNCHANGED queryVars

\* the with-block ends on the exception of a future:
\* executor.shutdown(wait=True), then the exception leaves
\* _get_embedding_batched and _generate_index_data
Unwind ==
  /\ gpc = "unwind"
  /\ \A k \in 1..Len(futures) : futures[k].state = "done"
  /\ gpc' = futures[ncollected + 1].exc
  /\ UNCHANGED <<finish_order, doc_chunks, base0, g_index_base, chunk_index,
                 process_chunks,
                 ids, embeddings_dir, futures, embeddings_list, ncollected,
                 written, enc_log>>
  /\ UNCHANGED timeVars
  /\ UNCHANGED buildVars
  /\ UNCHANGED queryVars

\* np.stack([]) raises ValueError: no chunk of this file was encoded
StackFails ==
  /\ gpc = "stack"
  /\ StackRaises(embeddings_list)
  /\ gpc' = "ValueError"
  /\ UNCHANGED <<finish_order, doc_chunks, base0, g_index_base, chunk_index,
                 process_chunks,
                 ids, embeddings_dir, futures, embeddings_list, ncollected,
                 written, enc_log>>
  /\ UNCHANGED timeVars
  /\ UNCHANGED buildVars
  /\ UNCHANGED queryVars

\* the rest of the iteration: format, write the file, advance the counters
WriteFile ==
  /\ gpc = "stack"
  /\ ~StackRaises(embeddings_list)
  /\ LET is_successful == IsSuccessful(process_chunks, embeddings_list)
         chunk_embeddings == SuccessfulEmbeddings(embeddings_list)
     IN  written' = Append(written,
                      [dir |-> embeddings_dir, base |-> g_index_base,
                       records |-> EmbeddingsFormatted(ids, is_successful,
                                                       chunk_embeddings)])
  /\ g_index_base' = g_index_base + Len(process_chunks)
  /\ chunk_index' = chunk_index + Len(process_chunks)
  /\ gpc' = "while"
  /\ UNCHANGED <<finish_order, doc_chunks, base0, process_chunks, ids,
                 embeddings_dir,
                 futures, embeddings_list, ncollected, enc_log>>
  /\ UNCHANGED timeVars
  /\ UNCHANGED buildVars
  /\ UNCHANGED queryVars

\* time passes while the orchestrating thread waits in future.result() or
\* in executor.shutdown(wait=True)
Tick ==
  /\ \/ /\ gpc = "collect"
        /\ ncollected < Len(futures)
        /\ futures[ncollected + 1].state # "done"
     \/ /\ gpc = "unwind"
        /\ \E k \in 1..Len(futures) : futures[k].state # "done"
  /\ ~StartDue
  /\ clock < MaxClock
  /\ clock' = clock + 1
  /\ UNCHANGED <<doc_chunks, base0, g_index_base, chunk_index, process_chunks,
                 ids, embeddings_dir, futures, embeddings_list, ncollected,
                 written, enc_log, finish_order, gpc>>
  /\ UNCHANGED <<max_workers, submitted_at, call_starts>>
  /\ UNCHANGED buildVars
  /\ UNCHANGED queryVars

IdxNext ==
  \/ NextGroup
  \/ Return
  \/ Submit
  \/ \E d \in 1..MaxSleep : Sleep(d)
  \/ \E k \in 1..Len(futures) : WorkerStart(k)
  \/ \E k \in 1..Len(futures) : \E res \in EncodeResults : WorkerFinish(k, res)
  \/ Collect
  \/ Tick
  \/ ExitPool
  \/ Unwind
  \/ StackFails
  \/ WriteFile

\* one call of _generate_index_data, no build in progress
IdxInit == Called /\ BuildIdle /\ QueryIdle

SpecIdx == IdxInit /\ [][IdxNext]_vars

\* ======================================================================
\* Spec: query_engine_build, concurrent invocations
\* ======================================================================
\* pc: the invocation's position; name: the argument query_engine;
\* q_engine: id of the record created at line 237 (0: none yet);
\* bdi_engine: id of the record build_doc_index found by name (0: none yet);
\* listed: _download_files_to_local has returned; ndocs: len(doc_filepaths);
\* handled: per document taken by the loop, [url, kind, written]: what it
\* was and the chunk ids written to its embedding files;
\* exc: the exception build_doc_index raised ("" if none);
\* nblobs: the blobs list_blobs yields; failed_download: the position of the
\* blob whose download raised (0: none);
\* doc_names: per blob list_blobs yields, the base name of blob.name,
\* [stem, ext], ext being the sequence of the characters of the extension;
\* staged: the urls of the blobs downloaded whose file_path is a file in
\* temp_dir (blobs of the same base name have the same file_path);
\* tmpdirs: the directories made by tempfile.mkdtemp() that exist, <<url, k>>
\* for the k-th one of the document at url;
\* cur: the document the loop body is at, from the call of
\* _generate_index_data on: [url, text_chunks, new_index_base (index_base of
\* _generate_index_data), embeddings_dir, chunk_index, all_files (the files
\* written so far), oks (per file, what its requests did), files (those in
\* embeddings_dir, once the call has returned), kind, written, nsaved (chunk
\* records saved so far)]
BuildInit ==
  /\ engines = {}
  /\ qdocs = {}
  /\ qchunks = {}
  /\ bucket = [n \in Names |-> [exists |-> FALSE, blobs |-> {}]]
  /\ aip = {}
  /\ build = [p \in Builds |->
                [pc |-> "start", name |-> "", q_engine |-> 0, bdi_engine |-> 0,
                 listed |-> FALSE, ndocs |-> 0, index_base |-> 0,
                 docs_processed |-> <<>>, docs_not_processed |-> <<>>,
                 handled |-> <<>>, exc |-> "",
                 nblobs |-> 0, failed_download |-> 0,
                 doc_names |-> <<>>,
                 staged |-> {}, tmpdirs |-> {}, cur |-> NoDoc]]

Init == IdxIdle /\ BuildInit /\ QueryIdle

\* ------------------------------------------------------ the metadata store
\* QueryEngine.find_by_name: collection.filter("name", "==", name).get(),
\* the first match in document-id order; {} stands for None
FindByName(name) ==
  LET m == {e \in engines : e.name = name}
  IN  {e \in m : \A f \in m : e.id <= f.id}

\* --------------------------------------------------------- the documents
\* a staged document: its extension as the blob name has it, whether its
\* parser raises, and the number of chunks the text splitter makes of its
\* text
\* the other invocation is never made (SpecOne)
Alone == \E p \in Builds : build[p].pc = "idle"

\* the numbers of documents _download_files_to_local may list
DocCounts == IF Alone THEN LargeDocCounts ELSE SmallDocCounts

Docs ==
  {[ext |-> <<"d", "o", "c", "x">>, corrupt |-> FALSE, n |-> 0],
   [ext |-> <<"p", "d", "f">>, corrupt |-> TRUE, n |-> 0]}
  \cup {[ext |-> <<"t", "x", "t">>, corrupt |-> FALSE, n |-> k] :
          k \in IF Alone THEN LargeDocChunkCounts ELSE SmallDocChunkCounts}
  \cup (IF Alone
        THEN {[ext |-> <<"T", "x", "t">>, corrupt |-> FALSE, n |-> 1]}
        ELSE {})

\* str.lower() of one character
LowerChar(c) ==
  CASE c = "A" -> "a" [] c = "B" -> "b" [] c = "C" -> "c" [] c = "D" -> "d"
    [] c = "E" -> "e" [] c = "F" -> "f" [] c = "G" -> "g" [] c = "H" -> "h"
    [] c = "I" -> "i" [] c = "J" -> "j" [] c = "K" -> "k" [] c = "L" -> "l"
    [] c = "M" -> "m" [] c = "N" -> "n" [] c = "O" -> "o" [] c = "P" -> "p"
    [] c = "Q" -> "q" [] c = "R" -> "r" [] c = "S" -> "s" [] c = "T" -> "t"
    [] c = "U" -> "u" [] c = "V" -> "v" [] c = "W" -> "w" [] c = "X" -> "x"
    [] c = "Y" -> "y" [] c = "Z" -> "z" [] OTHER -> c

\* doc_extension.lower(): every character of the extension lowered
Lower(ext) == [i \in 1..Len(ext) |-> LowerChar(ext[i])]

\* the extensions _read_doc has a loader for
LoaderExtensions == {<<"t", "x", "t">>, <<"c", "s", "v">>, <<"p", "d", "f">>}

\* the base names Path(blob.name).name of the blobs
DocNames == {[stem |-> st, ext |-> d.ext] : st \in Stems, d \in Docs}

\* what list_blobs may yield: the base names of the blobs, in order
Listings == UNION {[1..nd -> DocNames] : nd \in DocCounts \ {0}}

\* _read_doc: "None" for an unsupported extension; "raises" when
\* doc_filepath is not there (open raises) or the parser raises; else "text"
ReadDoc(doc, there) ==
  IF Lower(doc.ext) \notin LoaderExtensions THEN "None"
  ELSE IF ~there \/ doc.corrupt THEN "raises"
  ELSE "text"

\* the blob whose content file_path holds: download_to_filename of a later
\* blob of the same base name has overwritten the earlier one's
SrcUrl(names, url) ==
  CHOOSE v \in url..Len(names) :
    /\ names[v] = names[url]
    /\ \A w \in url..Len(names) : names[w] = names[url] => w <= v

\* the urls of the blobs downloaded to the file_path of the one at url
SameFile(names, url) == {v \in 1..Len(names) : names[v] = names[url]}

\* the chunks text_splitter.split_text makes of the file of the document at
\* url, whose content is doc: the text of the blob at src
TextChunks(src, doc) == [j \in 1..doc.n |-> <<src, j>>]

\* what became of a document that was read, for the record in handled
\* (n chunks; oks[g][k]: what the k-th request of the g-th file did, for the
\* files tried; exc: what _generate_index_data raised)
EncodedKind(n, oks, exc) ==
  IF n = 0 THEN "empty"
  ELSE IF exc = "RuntimeError" THEN "raised"
  ELSE IF /\ Len(oks) = NumFiles(n)
          /\ \A g \in DOMAIN oks : \A k \in DOMAIN oks[g] : oks[g][k] = "failed"
       THEN "all_failed"
  ELSE IF exc # "" THEN "file_failed"
  ELSE IF \A g \in DOMAIN oks : \A k \in DOMAIN oks[g] : oks[g][k] = "ok"
       THEN "encoded"
  ELSE "partial"

\* the chunk ids in the embedding files `files` (written or uploaded)
IdsWritten(files) ==
  UNION {{f.records[k].id : k \in DOMAIN f.records} :
           f \in {files[i] : i \in DOMAIN files}}

\* build_doc_index raises e: query_engine_build's except clause is entered
Fail(p, e) ==
  build' = [build EXCEPT ![p].pc = "rollback_docs", ![p].exc = e]

\* ----------------------------------------------------- query_engine_build
\* a variant without the existence check: the record is always created
CheckNoValidation(p) ==
  /\ build[p].pc = "start"
  /\ \E n \in Names :
       build' = [build EXCEPT ![p].name = n, ![p].pc = "save"]
  /\ UNCHANGED <<engines, qdocs, qchunks, bucket, aip>>
  /\ UNCHANGED idxVars
  /\ UNCHANGED queryVars

\* q_engine = QueryEngine.find_by_name(query_engine); raise ValidationError
\* if it is not None
Check(p) ==
  /\ build[p].pc = "start"
  /\ \E n \in Names :
       build' = [build EXCEPT
                   ![p].name = n,
                   ![p].pc = IF FindByName(n) # {} THEN "rejected" ELSE "save"]
  /\ UNCHANGED <<engines, qdocs, qchunks, bucket, aip>>
  /\ UNCHANGED idxVars
  /\ UNCHANGED queryVars

\* q_engine = QueryEngine(...); q_engine.save()
Save(p) ==
  /\ build[p].pc = "save"
  /\ \E id \in EngineIds \ {build[q].q_engine : q \in Builds} :
       /\ engines' = engines \cup
                       {[id |-> id, name |-> build[p].name, index_by |-> 0]}
       /\ build' = [build EXCEPT ![p].q_engine = id, ![p].pc = "lookup"]
  /\ UNCHANGED <<qdocs, qchunks, bucket, aip>>
  /\ UNCHANGED idxVars
  /\ UNCHANGED queryVars

\* build_doc_index: q_engine = QueryEngine.find_by_name(query_engine)
Lookup(p) ==
  /\ build[p].pc = "lookup"
  /\ LET found == FindByName(build[p].name)
     IN  IF found = {}
         THEN Fail(p, "ResourceNotFound")
         ELSE \E e \in found :
                build' = [build EXCEPT ![p].bdi_engine = e.id,
                                       ![p].pc = "bucket"]
  /\ UNCHANGED <<engines, qdocs, qchunks, bucket, aip>>
  /\ UNCHANGED idxVars
  /\ UNCHANGED queryVars

\* bucket = storage_client.create_bucket(bucket_name): Conflict if the
\* bucket exists, which the except clause of line 287 takes up; ok = FALSE:
\* storage raises something else
CreateBucket(p, ok) ==
  /\ build[p].pc = "bucket"
  /\ IF ~ok
     THEN /\ Fail(p, "StorageError")
          /\ UNCHANGED bucket
     ELSE IF bucket[build[p].name].exists
     THEN /\ build' = [build EXCEPT ![p].pc = "bucket_delete"]
          /\ UNCHANGED bucket
     ELSE /\ bucket' = [bucket EXCEPT
                          ![build[p].name] = [exists |-> TRUE, blobs |-> {}]]
          /\ build' = [build EXCEPT ![p].pc = "download"]
  /\ UNCHANGED <<engines, qdocs, qchunks, aip>>
  /\ UNCHANGED idxVars
  /\ UNCHANGED queryVars

\* bucket.delete(force=True): the bucket and its blobs are gone; NotFound if
\* it is gone already
DeleteBucket(p, ok) ==
  /\ build[p].pc = "bucket_delete"
  /\ IF ok /\ bucket[build[p].name].exists
     THEN /\ bucket' = [bucket EXCEPT
                          ![build[p].name] = [exists |-> FALSE, blobs |-> {}]]
          /\ build' = [build EXCEPT ![p].pc = "bucket_create"]
     ELSE /\ Fail(p, IF bucket[build[p].name].exists
                     THEN "StorageError" ELSE "NotFound")
          /\ UNCHANGED bucket
  /\ UNCHANGED <<engines, qdocs, qchunks, aip>>
  /\ UNCHANGED idxVars
  /\ UNCHANGED queryVars

\* the create_bucket of the except clause (line 291): Conflict again if the
\* bucket is back
RecreateBucket(p, ok) ==
  /\ build[p].pc = "bucket_create"
  /\ IF ok /\ ~bucket[build[p].name].exists
     THEN /\ bucket' = [bucket EXCEPT
                          ![build[p].name] = [exists |-> TRUE, blobs |-> {}]]
          /\ build' = [build EXCEPT ![p].pc = "download"]
     ELSE /\ Fail(p, IF bucket[build[p].name].exists
                     THEN "Conflict" ELSE "StorageError")
          /\ UNCHANGED bucket
  /\ UNCHANGED <<engines, qdocs, qchunks, aip>>
  /\ UNCHANGED idxVars
  /\ UNCHANGED queryVars

\* _download_files_to_local, the request of storage_client.list_blobs: it
\* yields the blobs of base names `names`; none: the loop is not entered,
\* the function returns [] and line 377 raises NoDocumentsIndexed
ListBlobs(p, names) ==
  /\ build[p].pc = "download"
  /\ build[p].doc_names = <<>>
  /\ IF names = <<>>
     THEN build' = [build EXCEPT ![p].pc = "rollback_docs",
                                 ![p].exc = "NoDocumentsIndexed",
                                 ![p].listed = TRUE]
     ELSE build' = [build EXCEPT ![p].nblobs = Len(names),
                                 ![p].doc_names = names]
  /\ UNCHANGED <<engines, qdocs, qchunks, bucket, aip>>
  /\ UNCHANGED idxVars
  /\ UNCHANGED queryVars

\* list_blobs raises: the exception leaves the function and
\* _process_documents
ListBlobsFails(p) ==
  /\ build[p].pc = "download"
  /\ build[p].doc_names = <<>>
  /\ Fail(p, "StorageError")
  /\ UNCHANGED <<engines, qdocs, qchunks, bucket, aip>>
  /\ UNCHANGED idxVars
  /\ UNCHANGED queryVars

\* the blob the loop of _download_files_to_local downloads next
NextBlob(p) == Cardinality(build[p].staged) + 1

\* one iteration: blob.download_to_filename(file_path) writes
\* temp_dir/<base name>; docs.append; after the last blob the function
\* returns the list and _process_documents goes on to its loop
Download(p) ==
  /\ build[p].pc = "download"
  /\ build[p].doc_names # <<>>
  /\ build' = [build EXCEPT
       ![p].staged = @ \cup {NextBlob(p)},
       ![p].pc = IF NextBlob(p) = build[p].nblobs THEN "docs" ELSE @,
       ![p].ndocs = IF NextBlob(p) = build[p].nblobs THEN build[p].nblobs ELSE @,
       ![p].listed = NextBlob(p) = build[p].nblobs]
  /\ UNCHANGED <<engines, qdocs, qchunks, bucket, aip>>
  /\ UNCHANGED idxVars
  /\ UNCHANGED queryVars

\* download_to_filename of the next blob raises: the exception leaves the
\* loop, the function and _process_documents, and with it the
\* TemporaryDirectory
DownloadFails(p) ==
  /\ build[p].pc = "download"
  /\ build[p].doc_names # <<>>
  /\ build' = [build EXCEPT ![p].pc = "rollback_docs",
                            ![p].exc = "StorageError",
                            ![p].staged = {},
                            ![p].failed_download = NextBlob(p)]
  /\ UNCHANGED <<engines, qdocs, qchunks, bucket, aip>>
  /\ UNCHANGED idxVars
  /\ UNCHANGED queryVars

\* the positions inside the loop over the documents: at its head, and in
\* its body before each of the calls to the embedding service, to the
\* storage and to the store
DocLoop == {"docs", "embed", "get_bucket", "upload", "save_doc", "save_chunk"}

\* the url of the document the loop takes next
NextUrl(p) == Len(build[p].handled) + 1

\* doc can be the content of the file of the document the loop takes next:
\* doc_name has its extension
IsNextDoc(p, doc) == doc.ext = build[p].doc_names[NextUrl(p)].ext

\* _read_doc(doc_name, doc_filepath) of the document the loop takes next
ReadNext(p, doc) == ReadDoc(doc, NextUrl(p) \in build[p].staged)

\* where the loop goes after one more document
AfterDoc(p) ==
  IF Len(build[p].handled) + 1 = build[p].ndocs THEN "check_docs" ELSE "docs"

\* the downloaded files left in temp_dir after one more document, of which
\* `files` are still there: the with-block of TemporaryDirectory ends with
\* the loop and deletes temp_dir
StagedAfterDoc(p, files) ==
  IF AfterDoc(p) = "check_docs" THEN {} ELSE files

\* a variant without the try/except around _read_doc: a parser error
\* leaves _process_documents
DocNotProcessedRaises(p, doc) ==
  /\ build[p].pc = "docs"
  /\ IsNextDoc(p, doc)
  /\ ReadNext(p, doc) \in {"None", "raises"}
  /\ build' = [build EXCEPT
       ![p].docs_not_processed =
          IF ReadNext(p, doc) = "None" THEN Append(@, NextUrl(p)) ELSE @,
       ![p].handled = Append(@, [url |-> NextUrl(p),
                                 kind |-> IF ReadNext(p, doc) = "None"
                                          THEN "unsupported" ELSE "unreadable",
                                 written |-> {}]),
       ![p].pc = IF ReadNext(p, doc) = "None" THEN AfterDoc(p) ELSE "rollback_docs",
       ![p].exc = IF ReadNext(p, doc) = "None" THEN @ ELSE "ParserError"]
  /\ UNCHANGED <<engines, qdocs, qchunks, bucket, aip>>
  /\ UNCHANGED idxVars
  /\ UNCHANGED queryVars

\* _read_doc returns None or raises: docs_not_processed.append; continue
DocNotProcessed(p, doc) ==
  /\ build[p].pc = "docs"
  /\ IsNextDoc(p, doc)
  /\ ReadNext(p, doc) \in {"None", "raises"}
  /\ build' = [build EXCEPT
       ![p].docs_not_processed = Append(@, NextUrl(p)),
       ![p].handled = Append(@, [url |-> NextUrl(p),
                                 kind |-> IF ReadNext(p, doc) = "None"
                                          THEN "unsupported" ELSE "unreadable",
                                 written |-> {}]),
       ![p].staged = StagedAfterDoc(p, @),
       ![p].pc = AfterDoc(p)]
  /\ UNCHANGED <<engines, qdocs, qchunks, bucket, aip>>
  /\ UNCHANGED idxVars
  /\ UNCHANGED queryVars

\* _read_doc returns a text the splitter makes no chunk of:
\* _generate_index_data does not enter its loop and its return statement
\* reads embeddings_dir, which is unbound; the exception leaves
\* _process_documents
EmptyDoc(p, doc) ==
  /\ build[p].pc = "docs"
  /\ IsNextDoc(p, doc)
  /\ ReadNext(p, doc) = "text"
  /\ doc.n = 0
  /\ build' = [build EXCEPT
       ![p].handled = Append(@, [url |-> NextUrl(p),
                                 kind |-> EncodedKind(0, <<>>, "UnboundLocalError"),
                                 written |-> {}]),
       ![p].staged = {},
       ![p].pc = "rollback_docs",
       ![p].exc = "UnboundLocalError"]
  /\ UNCHANGED <<engines, qdocs, qchunks, bucket, aip>>
  /\ UNCHANGED idxVars
  /\ UNCHANGED queryVars

\* _read_doc returns the text, the splitter makes its chunks, and
\* _generate_index_data is called: its first iteration takes its chunks,
\* makes its directory (tempfile.mkdtemp) and calls _get_embedding_batched
SplitDoc(p, doc) ==
  /\ build[p].pc = "docs"
  /\ IsNextDoc(p, doc)
  /\ ReadNext(p, doc) = "text"
  /\ doc.n > 0
  /\ LET url == NextUrl(p)
     IN  build' = [build EXCEPT
           ![p].cur = [NoDoc EXCEPT
                         !.url = url,
                         !.text_chunks =
                            TextChunks(SrcUrl(build[p].doc_names, url), doc),
                         !.new_index_base = build[p].index_base,
                         !.embeddings_dir = 1],
           ![p].tmpdirs = @ \cup {<<url, 1>>},
           ![p].pc = "embed"]
  /\ UNCHANGED <<engines, qdocs, qchunks, bucket, aip>>
  /\ UNCHANGED idxVars
  /\ UNCHANGED queryVars

\* process_chunks of the iteration _generate_index_data is in
ProcessChunks(p) ==
  LET c == build[p].cur
  IN  Slice(c.text_chunks, c.chunk_index,
            c.chunk_index + Min(MAX_NUM_TEXT_CHUNK_PROCESS,
                                Len(c.text_chunks) - c.chunk_index))

\* every way the requests of one call of _get_embedding_batched for m
\* chunks can go
FileOutcomes(m) == [1..NumBatches(m, ITEMS_PER_REQUEST) -> EncodeResults]

\* the same for any number of chunks one file takes
AllFileOutcomes ==
  UNION {FileOutcomes(m) : m \in 1..MAX_NUM_TEXT_CHUNK_PROCESS}

\* _get_embedding_batched raises (a request raised, or np.stack had nothing
\* to stack): the exception leaves _generate_index_data and
\* _process_documents; the directories made stay
DocAborts(p, oks) ==
  /\ build[p].pc = "embed"
  /\ oks \in FileOutcomes(Len(ProcessChunks(p)))
  /\ LET c == build[p].cur
         r == GetEmbeddingBatched(ProcessChunks(p), ITEMS_PER_REQUEST, oks)
     IN  /\ r.raises
         /\ build' = [build EXCEPT
              ![p].handled =
                 Append(@, [url |-> c.url,
                            kind |-> EncodedKind(Len(c.text_chunks),
                                                 Append(c.oks, oks), r.exc),
                            written |-> IdsWritten(c.all_files)]),
              ![p].staged = {},
              ![p].cur = NoDoc,
              ![p].pc = "rollback_docs",
              ![p].exc = r.exc]
  /\ UNCHANGED <<engines, qdocs, qchunks, bucket, aip>>
  /\ UNCHANGED idxVars
  /\ UNCHANGED queryVars

\* the blobs of a bucket after upload_from_filename of each file of `files`,
\* named <stem>_<index_base>_index.json
Upload(blobs, stem, files) ==
  LET new == {[name |-> <<stem, f.base>>, records |-> f.records] : f \in files}
  IN  {b \in blobs : \A f \in new : f.name # b.name} \cup new

\* _get_embedding_batched returns: the file of the iteration is written and
\* index_base and chunk_index advance; with chunks left the next iteration
\* makes its directory and calls _get_embedding_batched, else
\* _generate_index_data returns and the loop body goes on with its results
GenerateData(p, oks) ==
  /\ build[p].pc = "embed"
  /\ oks \in FileOutcomes(Len(ProcessChunks(p)))
  /\ LET c == build[p].cur
         pchunks == ProcessChunks(p)
         r == GetEmbeddingBatched(pchunks, ITEMS_PER_REQUEST, oks)
         pids == Arange(c.new_index_base, c.new_index_base + Len(pchunks))
         file == [dir |-> c.embeddings_dir, base |-> c.new_index_base,
                  records |-> EmbeddingsFormatted(pids, r.is_successful,
                                                  r.embeddings)]
         all_files == Append(c.all_files, file)
         all_oks == Append(c.oks, oks)
         chunk_idx == c.chunk_index + Len(pchunks)
     IN  /\ ~r.raises
         /\ IF chunk_idx < Len(c.text_chunks)
            THEN build' = [build EXCEPT
                   ![p].cur = [c EXCEPT
                                 !.new_index_base = @ + Len(pchunks),
                                 !.chunk_index = chunk_idx,
                                 !.embeddings_dir = @ + 1,
                                 !.all_files = all_files,
                                 !.oks = all_oks],
                   ![p].tmpdirs = @ \cup {<<c.url, c.embeddings_dir + 1>>}]
            ELSE build' = [build EXCEPT
                   ![p].cur = [c EXCEPT
                                 !.new_index_base = @ + Len(pchunks),
                                 !.chunk_index = chunk_idx,
                                 !.all_files = all_files,
                                 !.oks = all_oks,
                                 !.files = {file},
                                 !.kind = EncodedKind(Len(c.text_chunks),
                                                      all_oks, ""),
                                 !.written = IdsWritten(all_files)],
                   ![p].pc = "get_bucket"]
  /\ UNCHANGED <<engines, qdocs, qchunks, bucket, aip>>
  /\ UNCHANGED idxVars
  /\ UNCHANGED queryVars

\* a storage or store call of the loop body raises e: the exception leaves
\* _process_documents, and with it the TemporaryDirectory
FailDoc(p, e) ==
  build' = [build EXCEPT
     ![p].pc = "rollback_docs",
     ![p].exc = e,
     ![p].staged = {},
     ![p].handled = Append(@, [url |-> build[p].cur.url, kind |-> "aborted",
                               written |-> build[p].cur.written]),
     ![p].cur = NoDoc]

\* bucket = storage_client.get_bucket(bucket_name): NotFound if there is no
\* such bucket
GetBucket(p, ok) ==
  /\ build[p].pc = "get_bucket"
  /\ IF ok /\ bucket[build[p].name].exists
     THEN build' = [build EXCEPT ![p].pc = "upload"]
     ELSE FailDoc(p, IF bucket[build[p].name].exists
                     THEN "StorageError" ELSE "NotFound")
  /\ UNCHANGED <<engines, qdocs, qchunks, bucket, aip>>
  /\ UNCHANGED idxVars
  /\ UNCHANGED queryVars

\* the file of embeddings_dir is uploaded (NotFound if the bucket is gone);
\* shutil.rmtree(embeddings_dir); os.remove(doc_filepath)
UploadFiles(p, ok) ==
  /\ build[p].pc = "upload"
  /\ IF ok /\ bucket[build[p].name].exists
     THEN /\ bucket' = [bucket EXCEPT
                          ![build[p].name].blobs =
                             Upload(@, build[p].doc_names[build[p].cur.url].stem,
                                    build[p].cur.files)]
          /\ build' = [build EXCEPT
               ![p].staged = @ \ SameFile(build[p].doc_names, build[p].cur.url),
               ![p].tmpdirs =
                  @ \ {<<build[p].cur.url, build[p].cur.embeddings_dir>>},
               ![p].pc = "save_doc"]
     ELSE /\ FailDoc(p, IF bucket[build[p].name].exists
                        THEN "StorageError" ELSE "NotFound")
          /\ UNCHANGED bucket
  /\ UNCHANGED <<engines, qdocs, qchunks, aip>>
  /\ UNCHANGED idxVars
  /\ UNCHANGED queryVars

\* the QueryDocument of the document the loop body is at
QueryDoc(p) ==
  [id |-> <<p, build[p].cur.url>>,
   query_engine_id |-> build[p].bdi_engine,
   doc_url |-> build[p].cur.url,
   index_start |-> build[p].index_base,
   index_end |-> build[p].cur.new_index_base]

\* query_doc = QueryDocument(...); query_doc.save(); ok = FALSE: the store
\* raises
SaveDoc(p, ok) ==
  /\ build[p].pc = "save_doc"
  /\ IF ok
     THEN /\ qdocs' = qdocs \cup {QueryDoc(p)}
          /\ build' = [build EXCEPT ![p].pc = "save_chunk"]
     ELSE /\ FailDoc(p, "StoreError")
          /\ UNCHANGED qdocs
  /\ UNCHANGED <<engines, qchunks, bucket, aip>>
  /\ UNCHANGED idxVars
  /\ UNCHANGED queryVars

\* one iteration of `for i in range(0, len(text_chunks))`:
\* query_doc_chunk.save()
SaveChunk(p, ok) ==
  /\ build[p].pc = "save_chunk"
  /\ build[p].cur.nsaved < Len(build[p].cur.text_chunks)
  /\ LET i == build[p].cur.nsaved + 1
     IN  IF ok
         THEN /\ qchunks' = qchunks \cup
                   {[query_engine_id |-> build[p].bdi_engine,
                     query_document_id |-> QueryDoc(p).id,
                     id |-> <<QueryDoc(p).id, i>>,
                     index |-> (i - 1) + build[p].index_base,
                     text |-> build[p].cur.text_chunks[i]]}
              /\ build' = [build EXCEPT ![p].cur.nsaved = i]
         ELSE /\ FailDoc(p, "StoreError")
              /\ UNCHANGED qchunks
  /\ UNCHANGED <<engines, qdocs, bucket, aip>>
  /\ UNCHANGED idxVars
  /\ UNCHANGED queryVars

\* the end of the loop body: index_base = new_index_base;
\* docs_processed.append(query_doc)
DocProcessed(p) ==
  /\ build[p].pc = "save_chunk"
  /\ build[p].cur.nsaved = Len(build[p].cur.text_chunks)
  /\ build' = [build EXCEPT
       ![p].index_base = build[p].cur.new_index_base,
       ![p].docs_processed = Append(@, QueryDoc(p)),
       ![p].handled = Append(@, [url |-> build[p].cur.url,
                                 kind |-> build[p].cur.kind,
                                 written |-> build[p].cur.written]),
       ![p].staged = StagedAfterDoc(p, @),
       ![p].cur = NoDoc,
       ![p].pc = AfterDoc(p)]
  /\ UNCHANGED <<engines, qdocs, qchunks, bucket, aip>>
  /\ UNCHANGED idxVars
  /\ UNCHANGED queryVars

\* a variant that goes on to the index whatever was processed
CheckDocsSkipped(p) ==
  /\ build[p].pc = "check_docs"
  /\ build' = [build EXCEPT ![p].pc = "create_index"]
  /\ UNCHANGED <<engines, qdocs, qchunks, bucket, aip>>
  /\ UNCHANGED idxVars
  /\ UNCHANGED queryVars

\* if len(docs_processed) == 0: raise NoDocumentsIndexedException
CheckDocs(p) ==
  /\ build[p].pc = "check_docs"
  /\ IF build[p].docs_processed = <<>>
     THEN Fail(p, "NoDocumentsIndexed")
     ELSE build' = [build EXCEPT ![p].pc = "create_index"]
  /\ UNCHANGED <<engines, qdocs, qchunks, bucket, aip>>
  /\ UNCHANGED idxVars
  /\ UNCHANGED queryVars

\* MatchingEngineIndex.create_tree_ah_index; ok = FALSE: it raises
CreateIndex(p, ok) ==
  /\ build[p].pc = "create_index"
  /\ IF ok
     THEN /\ aip' = aip \cup {[kind |-> "index", by |-> p]}
          /\ build' = [build EXCEPT ![p].pc = "create_endpoint"]
     ELSE /\ Fail(p, "AiplatformError")
          /\ UNCHANGED aip
  /\ UNCHANGED <<engines, qdocs, qchunks, bucket>>
  /\ UNCHANGED idxVars
  /\ UNCHANGED queryVars

\* MatchingEngineIndexEndpoint.create; ok = FALSE: it raises
CreateEndpoint(p, ok) ==
  /\ build[p].pc = "create_endpoint"
  /\ IF ok
     THEN /\ aip' = aip \cup {[kind |-> "endpoint", by |-> p]}
          /\ build' = [build EXCEPT ![p].pc = "update"]
     ELSE /\ Fail(p, "AiplatformError")
          /\ UNCHANGED aip
  /\ UNCHANGED <<engines, qdocs, qchunks, bucket>>
  /\ UNCHANGED idxVars
  /\ UNCHANGED queryVars

\* q_engine.index_id = ...; q_engine.update(): the record found by
\* build_doc_index is updated; the store raises if it is gone
UpdateEngine(p) ==
  /\ build[p].pc = "update"
  /\ IF \E e \in engines : e.id = build[p].bdi_engine
     THEN /\ engines' = {IF e.id = build[p].bdi_engine
                         THEN [e EXCEPT !.index_by = p] ELSE e : e \in engines}
          /\ build' = [build EXCEPT ![p].pc = "deploy"]
     ELSE /\ Fail(p, "NotFound")
          /\ UNCHANGED engines
  /\ UNCHANGED <<qdocs, qchunks, bucket, aip>>
  /\ UNCHANGED idxVars
  /\ UNCHANGED queryVars

\* index_endpoint.deploy_index inside try/except Exception: an error is
\* logged and the build returns all the same
Deploy(p, ok) ==
  /\ build[p].pc = "deploy"
  /\ aip' = IF ok THEN aip \cup {[kind |-> "deployed", by |-> p]} ELSE aip
  /\ build' = [build EXCEPT ![p].pc = "returned"]
  /\ UNCHANGED <<engines, qdocs, qchunks, bucket>>
  /\ UNCHANGED idxVars
  /\ UNCHANGED queryVars

\* a variant of the except clause that deletes the engine record first
RollbackEngineFirst(p) ==
  /\ build[p].pc = "rollback_docs"
  /\ engines' = {e \in engines : e.id # build[p].q_engine}
  /\ qdocs' = {d \in qdocs : d.query_engine_id # build[p].q_engine}
  /\ build' = [build EXCEPT ![p].pc = "rollback_chunks"]
  /\ UNCHANGED <<qchunks, bucket, aip>>
  /\ UNCHANGED idxVars
  /\ UNCHANGED queryVars

\* QueryDocument.collection.filter("query_engine_id", "==", q_engine.id).delete()
RollbackDocs(p) ==
  /\ build[p].pc = "rollback_docs"
  /\ qdocs' = {d \in qdocs : d.query_engine_id # build[p].q_engine}
  /\ build' = [build EXCEPT ![p].pc = "rollback_chunks"]
  /\ UNCHANGED <<engines, qchunks, bucket, aip>>
  /\ UNCHANGED idxVars
  /\ UNCHANGED queryVars

\* QueryDocumentChunk.collection.filter(...).delete()
RollbackChunks(p) ==
  /\ build[p].pc = "rollback_chunks"
  /\ qchunks' = {c \in qchunks : c.query_engine_id # build[p].q_engine}
  /\ build' = [build EXCEPT ![p].pc = "rollback_engine"]
  /\ UNCHANGED <<engines, qdocs, bucket, aip>>
  /\ UNCHANGED idxVars
  /\ UNCHANGED queryVars

\* a variant of the except clause that starts over instead of raising
RollbackEngineRetry(p) ==
  /\ build[p].pc = "rollback_engine"
  /\ engines' = {e \in engines : e.id # build[p].q_engine}
  /\ build' = [build EXCEPT ![p].pc = "rollback_docs"]
  /\ UNCHANGED <<qdocs, qchunks, bucket, aip>>
  /\ UNCHANGED idxVars
  /\ UNCHANGED queryVars

\* QueryEngine.delete_by_id(q_engine.id); raise InternalServerError(e) from e
RollbackEngine(p) ==
  /\ build[p].pc = "rollback_engine"
  /\ engines' = {e \in engines : e.id # build[p].q_engine}
  /\ build' = [build EXCEPT ![p].pc = "failed"]
  /\ UNCHANGED <<qdocs, qchunks, bucket, aip>>
  /\ UNCHANGED idxVars
  /\ UNCHANGED queryVars

\* a deletion of the except clause raises: the clause is left at once
RollbackRaises(p) ==
  /\ build[p].pc \in {"rollback_docs", "rollback_chunks", "rollback_engine"}
  /\ build' = [build EXCEPT ![p].pc = "rollback_failed"]
  /\ UNCHANGED <<engines, qdocs, qchunks, bucket, aip>>
  /\ UNCHANGED idxVars
  /\ UNCHANGED queryVars

Next ==
  \/ \E p \in Builds : Check(p)
  \/ \E p \in Builds : Save(p)
  \/ \E p \in Builds : Lookup(p)
  \/ \E p \in Builds : \E ok \in BOOLEAN : CreateBucket(p, ok)
  \/ \E p \in Builds : \E ok \in BOOLEAN : DeleteBucket(p, ok)
  \/ \E p \in Builds : \E ok \in BOOLEAN : RecreateBucket(p, ok)
  \/ \E p \in Builds : \E names \in Listings \cup {<<>>} : ListBlobs(p, names)
  \/ \E p \in Builds : ListBlobsFails(p)
  \/ \E p \in Builds : Download(p)
  \/ \E p \in Builds : DownloadFails(p)
  \/ \E p \in Builds : \E doc \in Docs : DocNotProcessed(p, doc)
  \/ \E p \in Builds : \E doc \in Docs : EmptyDoc(p, doc)
  \/ \E p \in Builds : \E doc \in Docs : SplitDoc(p, doc)
  \/ \E p \in Builds : \E oks \in AllFileOutcomes : DocAborts(p, oks)
  \/ \E p \in Builds : \E oks \in AllFileOutcomes : GenerateData(p, oks)
  \/ \E p \in Builds : \E ok \in BOOLEAN : GetBucket(p, ok)
  \/ \E p \in Builds : \E ok \in BOOLEAN : UploadFiles(p, ok)
  \/ \E p \in Builds : \E ok \in BOOLEAN : SaveDoc(p, ok)
  \/ \E p \in Builds : \E ok \in BOOLEAN : SaveChunk(p, ok)
  \/ \E p \in Builds : DocProcessed(p)
  \/ \E p \in Builds : CheckDocs(p)
  \/ \E p \in Builds : \E ok \in BOOLEAN : CreateIndex(p, ok)
  \/ \E p \in Builds : \E ok \in BOOLEAN : CreateEndpoint(p, ok)
  \/ \E p \in Builds : UpdateEngine(p)
  \/ \E p \in Builds : \E ok \in BOOLEAN : Deploy(p, ok)
  \/ \E p \in Builds : RollbackDocs(p)
  \/ \E p \in Builds : RollbackChunks(p)
  \/ \E p \in Builds : RollbackEngine(p)
  \/ \E p \in Builds : RollbackRaises(p)

Spec == Init /\ [][Next]_vars

\* one invocation on its own: the other one is never made; the bucket of
\* an earlier build of that name, whose engine is gone, may be there
InitOne ==
  /\ IdxIdle
  /\ QueryIdle
  /\ engines = {}
  /\ qdocs = {}
  /\ qchunks = {}
  /\ \E b \in BOOLEAN :
       bucket = [n \in Names |-> [exists |-> b, blobs |-> {}]]
  /\ aip = {}
  /\ build = [p \in Builds |->
                [pc |-> IF p = 1 THEN "start" ELSE "idle",
                 name |-> "", q_engine |-> 0, bdi_engine |-> 0,
                 listed |-> FALSE, ndocs |-> 0, index_base |-> 0,
                 docs_processed |-> <<>>, docs_not_processed |-> <<>>,
                 handled |-> <<>>, exc |-> "",
                 nblobs |-> 0, failed_download |-> 0,
                 doc_names |-> <<>>,
                 staged |-> {}, tmpdirs |-> {}, cur |-> NoDoc]]

SpecOne == InitOne /\ [][Next]_vars

\* ======================================================================
\* SpecLive: either machine under fair scheduling
\* ======================================================================
\* a run is either one call of _generate_index_data or the concurrent
\* invocations of query_engine_build
LiveInit == IdxInit \/ Init

LiveNext == IdxNext \/ Next

\* the steps of the thread that runs _generate_index_data
MainThread ==
  \/ NextGroup
  \/ Return
  \/ Submit
  \/ \E d \in 1..MaxSleep : Sleep(d)
  \/ Collect
  \/ ExitPool
  \/ Unwind
  \/ StackFails
  \/ WriteFile

\* the steps of the worker threads of the ThreadPoolExecutor
WorkerThreads ==
  \E k \in 1..Len(futures) :
    WorkerStart(k) \/ \E res \in EncodeResults : WorkerFinish(k, res)

\* the steps of invocation p of query_engine_build
BuildStep(p) ==
  \/ Check(p)
  \/ Save(p)
  \/ Lookup(p)
  \/ \E ok \in BOOLEAN : CreateBucket(p, ok)
  \/ \E ok \in BOOLEAN : DeleteBucket(p, ok)
  \/ \E ok \in BOOLEAN : RecreateBucket(p, ok)
  \/ \E names \in Listings \cup {<<>>} : ListBlobs(p, names)
  \/ ListBlobsFails(p)
  \/ Download(p)
  \/ DownloadFails(p)
  \/ \E doc \in Docs : DocNotProcessed(p, doc)
  \/ \E doc \in Docs : EmptyDoc(p, doc)
  \/ \E doc \in Docs : SplitDoc(p, doc)
  \/ \E oks \in AllFileOutcomes : DocAborts(p, oks)
  \/ \E oks \in AllFileOutcomes : GenerateData(p, oks)
  \/ \E ok \in BOOLEAN : GetBucket(p, ok)
  \/ \E ok \in BOOLEAN : UploadFiles(p, ok)
  \/ \E ok \in BOOLEAN : SaveDoc(p, ok)
  \/ \E ok \in BOOLEAN : SaveChunk(p, ok)
  \/ DocProcessed(p)
  \/ CheckDocs(p)
  \/ \E ok \in BOOLEAN : CreateIndex(p, ok)
  \/ \E ok \in BOOLEAN : CreateEndpoint(p, ok)
  \/ UpdateEngine(p)
  \/ \E ok \in BOOLEAN : Deploy(p, ok)
  \/ RollbackDocs(p)
  \/ RollbackChunks(p)
  \/ RollbackEngine(p)
  \/ RollbackRaises(p)

\* every thread that can take a step eventually takes one: each invocation
\* runs in its own batch job, every external call returns or raises, and
\* the executor's workers are scheduled
Fairness ==
  /\ WF_vars(MainThread)
  /\ WF_vars(WorkerThreads)
  /\ \A p \in Builds : WF_vars(BuildStep(p))

SpecLive == LiveInit /\ [][LiveNext]_vars /\ Fairness

\* ======================================================================
\* SpecQuery: query_generate(user_id, prompt, q_engine, llm_type, user_query)
\* ======================================================================
\* number of document match results to retrieve (5 in the source; 2 here,
\* fewer than the chunks of the engine)
NUM_MATCH_RESULTS == 2

\* the QueryDocument and QueryDocumentChunk records a build of engine 1
\* persists for a corpus of two documents of two chunks and one chunk
StoredDocs ==
  {[id |-> <<1, 1>>, query_engine_id |-> 1, doc_url |-> 1,
    index_start |-> 0, index_end |-> 2],
   [id |-> <<1, 2>>, query_engine_id |-> 1, doc_url |-> 2,
    index_start |-> 2, index_end |-> 3]}

StoredChunks ==
  UNION {{[id |-> <<d.id, i>>, query_engine_id |-> 1,
           query_document_id |-> d.id, index |-> (i - 1) + d.index_start,
           text |-> <<d.doc_url, i>>] :
             i \in 1..(d.index_end - d.index_start)} : d \in StoredDocs}

\* the records of another engine, whose chunk has index 0 as well
OtherDocs ==
  {[id |-> <<2, 1>>, query_engine_id |-> 2, doc_url |-> 1,
    index_start |-> 0, index_end |-> 1]}

OtherChunks ==
  {[id |-> <<<<2, 1>>, 1>>, query_engine_id |-> 2,
    query_document_id |-> <<2, 1>>, index |-> 0, text |-> <<1, 1>>]}

\* the ids the index hands back: the ids of the embedding files
NeighborIds == 0..2

\* the lists of distinct ids of the index, in any order
Rankings ==
  {m \in UNION {[1..n -> NeighborIds] : n \in 0..Cardinality(NeighborIds)} :
     \A i, j \in DOMAIN m : i # j => m[i] # m[j]}

\* what find_neighbors(num_neighbors=n) can return: at most n distinct ids
Neighbors(num_neighbors) == {m \in Rankings : Len(m) <= num_neighbors}

\* query_generate is called with engine 1; records of the engine may have
\* been deleted since its index was built
QueryInit ==
  /\ IdxIdle
  /\ engines = {[id |-> 1, name |-> "qe", index_by |-> 1],
                [id |-> 2, name |-> "other", index_by |-> 2]}
  /\ \E D \in SUBSET StoredDocs : qdocs = D \cup OtherDocs
  /\ \E C \in SUBSET StoredChunks : qchunks = C \cup OtherChunks
  /\ bucket = [n \in Names |-> [exists |-> FALSE, blobs |-> {}]]
  /\ aip = {}
  /\ build = [p \in Builds |->
                [pc |-> "idle", name |-> "", q_engine |-> 0, bdi_engine |-> 0,
                 listed |-> FALSE, ndocs |-> 0, index_base |-> 0,
                 docs_processed |-> <<>>, docs_not_processed |-> <<>>,
                 handled |-> <<>>, exc |-> "",
                 nblobs |-> 0, failed_download |-> 0,
                 doc_names |-> <<>>,
                 staged |-> {}, tmpdirs |-> {}, cur |-> NoDoc]]
  /\ qpc = "start"
  /\ q_engine = 1
  /\ match_indexes = <<>>
  /\ nmatched = 0
  /\ query_references = <<>>
  /\ query_ref_ids = <<>>
  /\ qrefs = <<>>
  /\ qresults = <<>>
  /\ user_query \in {[saved |-> b, history |-> <<>>] : b \in BOOLEAN}
  /\ q_exc = ""

\* QueryDocumentChunk.find_by_index(q_engine_id, index): the chunk records
\* of that engine with that index; {} stands for None
FindByIndex(q_engine_id, index) ==
  {c \in qchunks : c.query_engine_id = q_engine_id /\ c.index = index}

\* QueryDocument.find_by_id(id); {} stands for None
FindById(id) == {d \in qdocs : d.id = id}

\* the query could not be answered: query_generate raises e
QueryRaises(e) ==
  /\ qpc' = "raised"
  /\ q_exc' = e

\* _encode_texts_to_embeddings([query_prompt]) and
\* find_neighbors(num_neighbors=NUM_MATCH_RESULTS), which answers nbrs:
\* match_indexes = match_indexes_list[0]; ok = FALSE: the endpoint raises
FindNeighbors(ok, nbrs) ==
  /\ qpc = "start"
  /\ nbrs \in Neighbors(NUM_MATCH_RESULTS)
  /\ IF ok
     THEN /\ match_indexes' = nbrs
          /\ qpc' = "matches"
          /\ UNCHANGED q_exc
     ELSE /\ QueryRaises("ServiceError")
          /\ UNCHANGED match_indexes
  /\ UNCHANGED <<q_engine, nmatched, query_references, query_ref_ids, qrefs,
                 qresults, user_query>>
  /\ UNCHANGED <<idxVars, buildVars>>

\* a variant that skips a match it cannot resolve
ResolveMatchSkips ==
  /\ qpc = "matches"
  /\ nmatched < Len(match_indexes)
  /\ LET doc_chunk == FindByIndex(q_engine, match_indexes[nmatched + 1])
     IN  IF doc_chunk = {}
         THEN UNCHANGED query_references
         ELSE \E c \in doc_chunk :
                LET query_doc == FindById(c.query_document_id)
                IN  IF query_doc = {}
                    THEN UNCHANGED query_references
                    ELSE \E d \in query_doc :
                           query_references' = Append(query_references,
                             [document_id |-> d.id,
                              document_url |-> d.doc_url,
                              document_text |-> c.text,
                              chunk_id |-> c.id])
  /\ nmatched' = nmatched + 1
  /\ UNCHANGED <<qpc, q_exc, q_engine, match_indexes, query_ref_ids, qrefs,
                 qresults, user_query>>
  /\ UNCHANGED <<idxVars, buildVars>>

\* a variant that saves the QueryReference of a match as soon as the match
\* is resolved
ResolveMatchSaves ==
  /\ qpc = "matches"
  /\ nmatched < Len(match_indexes)
  /\ LET doc_chunk == FindByIndex(q_engine, match_indexes[nmatched + 1])
     IN  IF doc_chunk = {}
         THEN /\ QueryRaises("ResourceNotFound")
              /\ UNCHANGED <<query_references, nmatched, qrefs>>
         ELSE \E c \in doc_chunk :
                LET query_doc == FindById(c.query_document_id)
                IN  IF query_doc = {}
                    THEN /\ QueryRaises("ResourceNotFound")
                         /\ UNCHANGED <<query_references, nmatched, qrefs>>
                    ELSE \E d \in query_doc :
                           /\ query_references' = Append(query_references,
                                [document_id |-> d.id,
                                 document_url |-> d.doc_url,
                                 document_text |-> c.text,
                                 chunk_id |-> c.id])
                           /\ qrefs' = Append(qrefs,
                                [id |-> Len(qrefs) + 1,
                                 query_engine_id |-> q_engine,
                                 document_id |-> d.id,
                                 chunk_id |-> c.id])
                           /\ nmatched' = nmatched + 1
                           /\ UNCHANGED <<qpc, q_exc>>
  /\ UNCHANGED <<q_engine, match_indexes, query_ref_ids, qresults,
                 user_query>>
  /\ UNCHANGED <<idxVars, buildVars>>

\* one iteration of `for match in match_indexes`
ResolveMatch ==
  /\ qpc = "matches"
  /\ nmatched < Len(match_indexes)
  /\ LET doc_chunk == FindByIndex(q_engine, match_indexes[nmatched + 1])
     IN  IF doc_chunk = {}
         THEN /\ QueryRaises("ResourceNotFound")
              /\ UNCHANGED <<query_references, nmatched>>
         ELSE \E c \in doc_chunk :
                LET query_doc == FindById(c.query_document_id)
                IN  IF query_doc = {}
                    THEN /\ QueryRaises("ResourceNotFound")
                         /\ UNCHANGED <<query_references, nmatched>>
                    ELSE \E d \in query_doc :
                           /\ query_references' = Append(query_references,
                                [document_id |-> d.id,
                                 document_url |-> d.doc_url,
                                 document_text |-> c.text,
                                 chunk_id |-> c.id])
                           /\ nmatched' = nmatched + 1
                           /\ UNCHANGED <<qpc, q_exc>>
  /\ UNCHANGED <<q_engine, match_indexes, query_ref_ids, qrefs, qresults,
                 user_query>>
  /\ UNCHANGED <<idxVars, buildVars>>

\* return query_references; question_prompt; llm_chat: ok = FALSE: it raises
Chat(ok) ==
  /\ qpc = "matches"
  /\ nmatched = Len(match_indexes)
  /\ IF ok
     THEN /\ qpc' = "save_refs"
          /\ UNCHANGED q_exc
     ELSE QueryRaises("LLMError")
  /\ UNCHANGED <<q_engine, match_indexes, nmatched, query_references,
                 query_ref_ids, qrefs, qresults, user_query>>
  /\ UNCHANGED <<idxVars, buildVars>>

\* the reference saved for ref; its id is its position in the collection
NewReference(ref) ==
  [id |-> Len(qrefs) + 1,
   query_engine_id |-> q_engine,
   document_id |-> ref.document_id,
   chunk_id |-> ref.chunk_id]

\* a variant that saves the last reference on every iteration
SaveReferenceOfLast(ok) ==
  /\ qpc = "save_refs"
  /\ Len(query_ref_ids) < Len(query_references)
  /\ LET query_reference ==
           NewReference(query_references[Len(query_references)])
     IN  IF ok
         THEN /\ qrefs' = Append(qrefs, query_reference)
              /\ query_ref_ids' = Append(query_ref_ids, query_reference.id)
              /\ UNCHANGED <<qpc, q_exc>>
         ELSE /\ QueryRaises("StoreError")
              /\ UNCHANGED <<qrefs, query_ref_ids>>
  /\ UNCHANGED <<q_engine, match_indexes, nmatched, query_references,
                 qresults, user_query>>
  /\ UNCHANGED <<idxVars, buildVars>>

\* one iteration of `for ref in query_references`:
\* QueryReference(...).save(); ok = FALSE: the store raises
SaveReference(ok) ==
  /\ qpc = "save_refs"
  /\ Len(query_ref_ids) < Len(query_references)
  /\ LET query_reference ==
           NewReference(query_references[Len(query_ref_ids) + 1])
     IN  IF ok
         THEN /\ qrefs' = Append(qrefs, query_reference)
              /\ query_ref_ids' = Append(query_ref_ids, query_reference.id)
              /\ UNCHANGED <<qpc, q_exc>>
         ELSE /\ QueryRaises("StoreError")
              /\ UNCHANGED <<qrefs, query_ref_ids>>
  /\ UNCHANGED <<q_engine, match_indexes, nmatched, query_references,
                 qresults, user_query>>
  /\ UNCHANGED <<idxVars, buildVars>>

\* query_result = QueryResult(...); query_result.save(); then
\* `if user_query is None`; ok = FALSE: the store raises
SaveResult(ok) ==
  /\ qpc = "save_refs"
  /\ Len(query_ref_ids) = Len(query_references)
  /\ IF ok
     THEN /\ qresults' = Append(qresults, [query_engine_id |-> q_engine,
                                           query_refs |-> query_ref_ids])
          /\ qpc' = IF user_query.saved THEN "update_history"
                    ELSE "save_query"
          /\ UNCHANGED q_exc
     ELSE /\ QueryRaises("StoreError")
          /\ UNCHANGED qresults
  /\ UNCHANGED <<q_engine, match_indexes, nmatched, query_references,
                 query_ref_ids, qrefs, user_query>>
  /\ UNCHANGED <<idxVars, buildVars>>

\* user_query = UserQuery(...); user_query.save(); ok = FALSE: the store
\* raises
SaveUserQuery(ok) ==
  /\ qpc = "save_query"
  /\ IF ok
     THEN /\ user_query' = [user_query EXCEPT !.saved = TRUE]
          /\ qpc' = "update_history"
          /\ UNCHANGED q_exc
     ELSE /\ QueryRaises("StoreError")
          /\ UNCHANGED user_query
  /\ UNCHANGED <<q_engine, match_indexes, nmatched, query_references,
                 query_ref_ids, qrefs, qresults>>
  /\ UNCHANGED <<idxVars, buildVars>>

\* user_query.update_history(prompt, question_response, query_references);
\* return query_result, query_references; ok = FALSE: the store raises
UpdateHistory(ok) ==
  /\ qpc = "update_history"
  /\ IF ok
     THEN /\ user_query' = [user_query EXCEPT
                              !.history = Append(@, query_references)]
          /\ qpc' = "returned"
          /\ UNCHANGED q_exc
     ELSE /\ QueryRaises("StoreError")
          /\ UNCHANGED user_query
  /\ UNCHANGED <<q_engine, match_indexes, nmatched, query_references,
                 query_ref_ids, qrefs, qresults>>
  /\ UNCHANGED <<idxVars, buildVars>>

QueryNext ==
  \/ \E ok \in BOOLEAN : \E nbrs \in Rankings : FindNeighbors(ok, nbrs)
  \/ ResolveMatch
  \/ \E ok \in BOOLEAN : Chat(ok)
  \/ \E ok \in BOOLEAN : SaveReference(ok)
  \/ \E ok \in BOOLEAN : SaveResult(ok)
  \/ \E ok \in BOOLEAN : SaveUserQuery(ok)
  \/ \E ok \in BOOLEAN : UpdateHistory(ok)

SpecQuery == QueryInit /\ [][QueryNext]_vars

\* ---------------------------------------------------------------------
\* Claims about query_engine_build (Spec)
\* ---------------------------------------------------------------------
Last(seq) == seq[Len(seq)]
Range(seq) == {seq[i] : i \in 1..Len(seq)}

\* the QueryDocument / QueryDocumentChunk records carrying engine id `id`
DocsOf(id) == {d \in qdocs : d.query_engine_id = id}
ChunksOf(id) == {c \in qchunks : c.query_engine_id = id}

\* C1: a build that raised from its except clause, after all three
\* deletions, has left no QueryEngine record of its own and no QueryDocument
\* or QueryDocumentChunk record carrying its engine id.
C1_NoHalfCommitted ==
  \A p \in Builds :
    build[p].pc = "failed" =>
      /\ ~\E e \in engines : e.id = build[p].q_engine
      /\ DocsOf(build[p].q_engine) = {}
      /\ ChunksOf(build[p].q_engine) = {}

\* C2: a build called with a name that find_by_name resolves ends in
\* ValidationError on its first step, that step changes no record, bucket
\* or index, and the build takes no further step (no rollback deletion).
C2_RejectChangesNothing ==
  [][\A p \in Builds :
       /\ (build[p].pc = "start" /\ build'[p].pc # "start"
             /\ \E e \in engines : e.name = build'[p].name)
          => /\ build'[p].pc = "rejected"
             /\ UNCHANGED <<engines, qdocs, qchunks, bucket, aip>>
       /\ build[p].pc = "rejected" => build'[p] = build[p]]_vars

\* a build was rejected while the engine of that name had documents
C2_Witness ==
  \E p \in Builds :
    /\ build[p].pc = "rejected"
    /\ \E e \in engines :
         /\ e.name = build[p].name
         /\ DocsOf(e.id) # {}
         /\ ChunksOf(e.id) # {}

\* C3: the QueryDocument records of the engine a build returned have
\* pairwise disjoint ranges [index_start, index_end) that are contiguous
\* from 0.
C3_RangesContiguous ==
  \A p \in Builds :
    build[p].pc = "returned" =>
      LET D == DocsOf(build[p].q_engine)
      IN  /\ \A d1, d2 \in D :
               d1 # d2 => \/ d1.index_end <= d2.index_start
                          \/ d2.index_end <= d1.index_start
          /\ \A d \in D :
               \/ d.index_start = 0
               \/ \E d2 \in D : d2.index_end = d.index_start

\* C4: a build whose corpus was listed and all taken by the loop, every
\* document being one that cannot be processed (unsupported, unreadable,
\* without text, or with every chunk failing encoding), fails with
\* NoDocumentsIndexed as the cause and leaves no engine of its name; a
\* returned engine has a QueryDocument.
C4_NoDocumentsIndexed ==
  \A p \in Builds :
    /\ (/\ build[p].pc \in {"failed", "rollback_failed"}
        /\ build[p].listed
        /\ build[p].docs_processed = <<>>
        /\ Len(build[p].handled) = build[p].ndocs
        /\ \A k \in 1..Len(build[p].handled) :
             build[p].handled[k].kind
               \in {"unsupported", "unreadable", "empty", "all_failed"})
       => build[p].exc = "NoDocumentsIndexed"
    /\ (/\ build[p].pc = "failed"
        /\ build[p].listed
        /\ build[p].docs_processed = <<>>)
       => ~\E e \in engines : e.id = build[p].q_engine
    /\ build[p].pc = "returned" => DocsOf(build[p].q_engine) # {}

\* C5: no two QueryEngine records have the same name.
C5_UniqueName ==
  \A e1, e2 \in engines : e1.name = e2.name => e1.id = e2.id

\* C6: a document all of whose chunks failed encoding is in
\* docs_not_processed, has no record, and has not aborted the build.
C6_AllFailedIsSkipped ==
  \A p \in Builds :
    \A k \in 1..Len(build[p].handled) :
      build[p].handled[k].kind = "all_failed" =>
        /\ build[p].handled[k].url \in Range(build[p].docs_not_processed)
        /\ ~\E d \in qdocs : d.id = <<p, build[p].handled[k].url>>
        /\ build[p].exc # "ValueError"

\* C7: a document that yields no chunk is in docs_not_processed, has no
\* record, and has not aborted the build.
C7_EmptyIsSkipped ==
  \A p \in Builds :
    \A k \in 1..Len(build[p].handled) :
      build[p].handled[k].kind = "empty" =>
        /\ build[p].handled[k].url \in Range(build[p].docs_not_processed)
        /\ ~\E d \in qdocs : d.id = <<p, build[p].handled[k].url>>
        /\ build[p].exc # "UnboundLocalError"

\* the spellings of an extension, given in lower case as lo and in upper
\* case as up, with each letter in either case
Spellings(lo, up) ==
  {s \in [1..Len(lo) -> {lo[i] : i \in 1..Len(lo)} \cup {up[i] : i \in 1..Len(up)}] :
     \A i \in 1..Len(lo) : s[i] \in {lo[i], up[i]}}

\* every spelling of txt, csv and pdf
LoaderSpellings ==
  Spellings(<<"t", "x", "t">>, <<"T", "X", "T">>)
    \cup Spellings(<<"c", "s", "v">>, <<"C", "S", "V">>)
    \cup Spellings(<<"p", "d", "f">>, <<"P", "D", "F">>)

\* C8: the step that takes a document of unsupported type, or one whose
\* parser raises, appends its url to docs_not_processed, persists nothing,
\* leaves index_base alone, raises nothing and goes on to the next document
\* (or, after the last one, to the check of docs_processed); the loop is
\* left normally only when every listed document has been taken; and a
\* document is skipped as unsupported only if its extension, in lower case,
\* is none of txt, csv and pdf (whatever the case of each of its letters).
C8_UnreadableIsSkipped ==
  [][\A p \in Builds :
       /\ (/\ Len(build'[p].handled) = Len(build[p].handled) + 1
           /\ Last(build'[p].handled).kind = "unsupported")
          => build[p].doc_names[Last(build'[p].handled).url].ext
               \notin LoaderSpellings
       /\ (/\ Len(build'[p].handled) = Len(build[p].handled) + 1
           /\ Last(build'[p].handled).kind \in {"unsupported", "unreadable"})
          => /\ build'[p].docs_not_processed
                  = Append(build[p].docs_not_processed,
                           Last(build'[p].handled).url)
             /\ build'[p].docs_processed = build[p].docs_processed
             /\ UNCHANGED <<engines, qdocs, qchunks, bucket, aip>>
             /\ build'[p].index_base = build[p].index_base
             /\ build'[p].exc = ""
             /\ build'[p].pc = IF Len(build'[p].handled) < build[p].ndocs
                               THEN "docs" ELSE "check_docs"
       /\ (build'[p].pc = "check_docs" /\ build[p].pc \in DocLoop)
          => Len(build'[p].handled) = build'[p].ndocs]_vars

\* a build returned whose first document could not be parsed and whose
\* second document, of extension Txt, was then processed from index 0
C8_Witness ==
  \E p \in Builds :
    /\ build[p].pc = "returned"
    /\ Len(build[p].handled) = 2
    /\ build[p].doc_names[2].ext = <<"T", "x", "t">>
    /\ build[p].handled[1].kind = "unreadable"
    /\ build[p].handled[2].kind = "encoded"
    /\ build[p].docs_not_processed = <<1>>
    /\ Len(build[p].docs_processed) = 1
    /\ build[p].docs_processed[1].doc_url = 2
    /\ build[p].docs_processed[1].index_start = 0


\* the request outcomes of the run so far, as GenerateIndexData takes them
\* (a request not answered yet counts as failed)
LoggedOutcomes ==
  [g \in 1..NumFiles(Len(doc_chunks)) |->
     [k \in 1..NumRequests(Len(doc_chunks), g) |->
        LET res == enc_log[(g - 1) * MAX_NUM_TEXT_CHUNK_PROCESS
                           + (k - 1) * ITEMS_PER_REQUEST + 1]
        IN  IF res \in EncodeResults THEN res ELSE "failed"]]

\* the stepwise run ends as the function GenerateIndexData says
IdxAgreesWithFunction ==
  gpc \in {"returned", "ValueError", "UnboundLocalError", "RuntimeError"} =>
    GenerateIndexData(doc_chunks, base0, LoggedOutcomes) =
      [exc |-> IF gpc = "returned" THEN "" ELSE gpc,
       index_base |-> g_index_base,
       embeddings_dir |-> embeddings_dir,
       files |-> written]

\* ---------------------------------------------------------------------
\* Claims about the encoder and the embedding files (SpecIdx)
\* ---------------------------------------------------------------------

\* what the service answered for chunk j of the document, as an entry
Answer(j) == IF enc_log[j] = "ok" THEN Vec(doc_chunks[j]) ELSE None

\* C9: once every future has been collected, embeddings_list has one entry
\* per input chunk, entry i is what the service answered for input chunk i
\* (its vector or None), and the is_successful mask has that length too,
\* whatever order the sub-batches completed in.
C9_OrderedSameLength ==
  gpc = "stack" =>
    /\ Len(embeddings_list) = Len(process_chunks)
    /\ \A i \in 1..Len(process_chunks) :
         embeddings_list[i] = Answer(chunk_index + i)
    /\ Len(IsSuccessful(process_chunks, embeddings_list)) = Len(process_chunks)

\* the second sub-batch completed before the first, with different outcomes
C9_Witness ==
  /\ gpc = "stack"
  /\ Len(finish_order) >= 2
  /\ finish_order[1] = 2
  /\ futures[1].result[1] # None
  /\ futures[2].result[1] = None

\* the chunk positions (1-based, in the document) of the g-th file
FilePositions(g) ==
  Arange((g - 1) * MAX_NUM_TEXT_CHUNK_PROCESS + 1,
         Min(g * MAX_NUM_TEXT_CHUNK_PROCESS, Len(doc_chunks)) + 1)

\* C10: every written file holds exactly one record per successfully encoded
\* chunk of its range, in order; the record of the chunk at (0-based)
\* position j of the document has id index_base + j and that chunk's own
\* vector; failed chunks have no record.
C10_IdsNotShifted ==
  \A g \in 1..Len(written) :
    LET pos == FilePositions(g)
        okpos == KeepFrom(pos, [i \in 1..Len(pos) |-> enc_log[pos[i]] = "ok"], 1)
    IN  written[g].records =
          [i \in 1..Len(okpos) |->
             [id |-> base0 + (okpos[i] - 1),
              embedding |-> Vec(doc_chunks[okpos[i]])]]

\* a file was written in which a failed chunk precedes a surviving one
C10_Witness ==
  \E g \in 1..Len(written) :
    \E i \in 1..Len(FilePositions(g)) :
      /\ enc_log[FilePositions(g)[i]] = "failed"
      /\ \E r \in 1..Len(written[g].records) :
           written[g].records[r].id > base0 + (FilePositions(g)[i] - 1)

\* C11: within one pool, each sub-batch is submitted at least one pacing
\* delay after the one before it, whether or not a worker is idle, so that
\* by the time N sub-batches have been submitted at least N - 1 pacing
\* delays have passed since the first submission.
C11_PacedSubmissions ==
  /\ \A i \in 1..(Len(submitted_at) - 1) :
       submitted_at[i + 1] >= submitted_at[i] + 1
  /\ Len(submitted_at) >= 1 =>
       clock - submitted_at[1] >= Len(submitted_at) - 1

\* the second sub-batch was submitted while both workers of the pool
\* were idle
C11_Witness ==
  /\ gpc = "sleep"
  /\ Len(submitted_at) = 2
  /\ max_workers = 2
  /\ futures[1].state = "done"
  /\ futures[2].state = "queued"

\* C17: any two embedding-service calls of the run start at least one
\* pacing delay apart, whatever the pool size and the call durations.
C17_CallStartsPaced ==
  \A i, j \in 1..Len(call_starts) :
    i < j => call_starts[j] >= call_starts[i] + 1

\* ---------------------------------------------------------------------
\* Claims about query_generate (SpecQuery)
\* ---------------------------------------------------------------------
\* the neighbor id resolves to a chunk of the engine whose document exists
Resolvable(index) ==
  \E c \in FindByIndex(q_engine, index) : FindById(c.query_document_id) # {}

\* C12: when some neighbor id does not resolve to a chunk of the engine, or
\* its chunk's document is missing, the query never gets past the loop over
\* the matches: it can only end by raising ResourceNotFound, with no
\* reference, result or history saved; and no match is ever skipped.
C12_UnresolvedFails ==
  /\ (\E i \in 1..Len(match_indexes) : ~Resolvable(match_indexes[i]))
       => /\ qpc \in {"matches", "raised"}
          /\ qpc = "raised" => q_exc = "ResourceNotFound"
          /\ qrefs = <<>>
          /\ qresults = <<>>
          /\ user_query.history = <<>>
  /\ Len(query_references) = nmatched

\* the first match resolved, the second one's chunk exists but its
\* document is gone, and the query raised
C12_Witness ==
  /\ qpc = "raised"
  /\ q_exc = "ResourceNotFound"
  /\ Len(query_references) = 1
  /\ Len(match_indexes) = 2
  /\ \E c \in FindByIndex(q_engine, match_indexes[2]) :
       FindById(c.query_document_id) = {}

\* C13: a query that returned has one reference per neighbor, in neighbor
\* order and at most NUM_MATCH_RESULTS (the num_neighbors it asked for); reference i names the chunk of the
\* engine whose index is neighbor i and that chunk's document; one
\* QueryReference was saved per reference, in order, and the QueryResult
\* lists their ids in that order.
C13_ReferencesMatchNeighbors ==
  qpc = "returned" =>
    /\ Len(query_references) = Len(match_indexes)
    /\ Len(match_indexes) <= NUM_MATCH_RESULTS
    /\ \A i \in 1..Len(match_indexes) :
         \E c \in qchunks :
           /\ c.query_engine_id = q_engine
           /\ c.index = match_indexes[i]
           /\ query_references[i].chunk_id = c.id
           /\ query_references[i].document_id = c.query_document_id
           /\ \E d \in qdocs : d.id = c.query_document_id
    /\ Len(qrefs) = Len(query_references)
    /\ \A i \in 1..Len(qrefs) :
         /\ qrefs[i].chunk_id = query_references[i].chunk_id
         /\ qrefs[i].document_id = query_references[i].document_id
    /\ Len(qresults) = 1
    /\ qresults[1].query_refs = [i \in 1..Len(qrefs) |-> qrefs[i].id]

\* a query returned two references of different documents, the later
\* chunk first
C13_Witness ==
  /\ qpc = "returned"
  /\ match_indexes = <<2, 0>>
  /\ Len(qrefs) = 2

\* ---------------------------------------------------------------------
\* Claims about the build steps (Spec, SpecOne)
\* ---------------------------------------------------------------------
\* C14: the deploy step, whether or not the deployment was made, ends the
\* build normally: the build returns, nothing is deleted, and the record of
\* the engine it returns carries index and endpoint identifiers; a step of
\* index creation or endpoint creation that created nothing enters the
\* rollback.
C14_DeployFailureIsNotFatal ==
  [][\A p \in Builds :
       /\ (build[p].pc = "deploy" /\ build'[p] # build[p])
          => /\ build'[p].pc = "returned"
             /\ build'[p].exc = ""
             /\ UNCHANGED <<engines, qdocs, qchunks>>
             /\ \E e \in engines' :
                  e.id = build'[p].q_engine /\ e.index_by # 0
       /\ (/\ build[p].pc \in {"create_index", "create_endpoint"}
           /\ build'[p] # build[p]
           /\ aip' = aip)
          => /\ build'[p].pc = "rollback_docs"
             /\ build'[p].exc # ""]_vars

\* C15: no QueryDocument record exists for a document of which some, but
\* not all, chunks failed encoding.
C15_OnlyFullyEmbedded ==
  \A p \in Builds :
    \A k \in 1..Len(build[p].handled) :
      build[p].handled[k].kind = "partial" =>
        ~\E d \in qdocs : d.id = <<p, build[p].handled[k].url>>

\* C16: a build in which the download of one blob raised has gone on to
\* list the other blobs and has not been aborted by that failure.
C16_DownloadFailureIsPerItem ==
  \A p \in Builds :
    (build[p].failed_download # 0 /\ build[p].nblobs > 1) =>
      /\ build[p].listed
      /\ build[p].exc # "StorageError"

\* C18: the except clause deletes the QueryDocument records carrying the
\* engine id, then the QueryDocumentChunk records carrying it, then the
\* QueryEngine record, and only then raises; the engine record is there
\* until its own deletion; a deletion that raises ends the invocation at
\* once, with nothing more deleted and no second attempt.
C18_RollbackOrder ==
  [][\A p \in Builds :
       /\ (build'[p].pc = "rollback_chunks" /\ build[p].pc # "rollback_chunks")
          => /\ build[p].pc = "rollback_docs"
             /\ DocsOf(build[p].q_engine)' = {}
             /\ UNCHANGED <<engines, qchunks>>
       /\ (build'[p].pc = "rollback_engine" /\ build[p].pc # "rollback_engine")
          => /\ build[p].pc = "rollback_chunks"
             /\ ChunksOf(build[p].q_engine)' = {}
             /\ UNCHANGED <<engines, qdocs>>
       /\ (build'[p].pc = "failed" /\ build[p].pc # "failed")
          => /\ build[p].pc = "rollback_engine"
             /\ \E e \in engines : e.id = build[p].q_engine
             /\ ~\E e \in engines' : e.id = build[p].q_engine
             /\ build'[p].exc = build[p].exc
       /\ (build'[p].pc = "rollback_failed" /\ build[p].pc # "rollback_failed")
          => /\ build[p].pc \in {"rollback_docs", "rollback_chunks",
                                  "rollback_engine"}
             /\ UNCHANGED <<engines, qdocs, qchunks>>
       /\ build[p].pc \in {"failed", "rollback_failed"}
          => build'[p] = build[p]]_vars

\* a build that had persisted a document and its chunks was rolled back
\* and raised
C18_Witness ==
  \E p \in Builds :
    /\ build[p].pc = "failed"
    /\ build[p].docs_processed # <<>>
    /\ build[p].exc = "AiplatformError"
    /\ DocsOf(build[p].q_engine) = {}

\* the engines whose build is under way or has returned (not being rolled
\* back)
BuiltEngines ==
  {build[p].q_engine : p \in {q \in Builds :
     build[q].pc \in DocLoop \cup {"check_docs", "create_index",
                                    "create_endpoint", "update", "deploy",
                                    "returned"}}}

\* the QueryDocument records whose loop body has run to its end
DocsDone == UNION {Range(build[p].docs_processed) : p \in Builds}

\* C19: the QueryDocumentChunk records of one engine that is not being
\* rolled back have pairwise different indices; each lies in the range of
\* its document; a document whose chunk records have all been saved has as
\* many of them as its range is long; and a build creates its documents'
\* chunk records in strictly increasing order of index.
C19_ChunkIndices ==
  /\ \A id \in BuiltEngines :
       /\ \A c1, c2 \in ChunksOf(id) : c1.index = c2.index => c1 = c2
       /\ \A c \in ChunksOf(id) :
            \E d \in qdocs :
              /\ d.id = c.query_document_id
              /\ d.index_start <= c.index
              /\ c.index < d.index_end
       /\ \A d \in DocsOf(id) \cap DocsDone :
            Cardinality({c \in qchunks : c.query_document_id = d.id})
              = d.index_end - d.index_start
  /\ \A p \in Builds :
       \A i, j \in 1..Len(build[p].docs_processed) :
         i < j => build[p].docs_processed[i].index_end
                    <= build[p].docs_processed[j].index_start

\* invocation p creates a QueryDocument or QueryDocumentChunk record in
\* this step
CreatesRecords(p) ==
  \/ \E d \in qdocs' \ qdocs : d.id[1] = p
  \/ \E c \in qchunks' \ qchunks : c.query_document_id[1] = p

\* C20: an invocation creates document and chunk records only in its
\* document loop, with its engine record saved and stored; it starts index
\* creation only when every listed document has been taken and at least one
\* was processed; it reaches deploy only by the step that writes the index
\* and endpoint identifiers onto an engine record; and once index creation
\* has started it creates no further document or chunk record.
C20_StepOrder ==
  [][\A p \in Builds :
       /\ (CreatesRecords(p) \/ build'[p].handled # build[p].handled)
          => /\ build[p].pc \in DocLoop
             /\ \E e \in engines : e.id = build[p].q_engine
       /\ (build'[p].pc = "create_index" /\ build[p].pc # "create_index")
          => /\ build[p].pc = "check_docs"
             /\ Len(build[p].handled) = build[p].ndocs
             /\ build[p].docs_processed # <<>>
       /\ ({r \in aip' \ aip : r.by = p} # {})
          => /\ build[p].pc \in {"create_index", "create_endpoint", "deploy"}
             /\ Len(build[p].handled) = build[p].ndocs
             /\ build[p].docs_processed # <<>>
       /\ (build'[p].pc = "deploy" /\ build[p].pc # "deploy")
          => /\ build[p].pc = "update"
             /\ \E e \in engines' : e.index_by = p
       /\ ([kind |-> "deployed", by |-> p] \in aip' \ aip)
          => build[p].pc = "deploy"
       /\ build[p].pc \in {"create_index", "create_endpoint", "update",
                            "deploy", "returned"}
          => ~CreatesRecords(p)]_vars

\* a build returned with its index deployed while the other invocation,
\* racing with it, was rolled back
C20_Witness ==
  \E p, q \in Builds :
    /\ build[p].pc = "returned"
    /\ build[p].docs_processed # <<>>
    /\ [kind |-> "deployed", by |-> p] \in aip
    /\ build[q].pc = "failed"
    /\ build[q].handled # <<>>

\* C21: when the loop takes the next document, the downloaded file of every
\* document it has already taken is gone from temp_dir, and so is every
\* temporary embeddings directory made for them, whether the document was
\* processed, was of an unsupported type or could not be parsed.
C21_StagingFilesReleased ==
  \A p \in Builds :
    build[p].pc = "docs"
      => /\ build[p].staged \cap (1..Len(build[p].handled)) = {}
         /\ build[p].tmpdirs = {}

\* the chunk ids of the records held by the blobs of the staging bucket
IdsStaged(name) ==
  UNION {{b.records[k].id : k \in DOMAIN b.records} : b \in bucket[name].blobs}

\* C22: after a document is processed, every chunk id written to one of its
\* embedding files, whatever the number of files, has its record in the
\* staging bucket of the engine.
C22_EveryFileUploaded ==
  \A p \in Builds :
    \A i \in 1..Len(build[p].handled) :
      (\E j \in 1..Len(build[p].docs_processed) :
         build[p].docs_processed[j].doc_url = build[p].handled[i].url)
      => build[p].handled[i].written \subseteq IdsStaged(build[p].name)

\* C23: once _get_embedding_batched has left its thread pool, that is while
\* the results are stacked, the file is written, the next group of chunks is
\* taken or _generate_index_data has returned or raised, every sub-batch
\* submitted to the pool has completed: none is queued or running.
C23_NoCallOutstanding ==
  gpc \in {"stack", "while", "returned", "ValueError", "UnboundLocalError",
           "RuntimeError"}
    => \A k \in 1..Len(futures) : futures[k].state = "done"

\* the pool was left with two sub-batches that ran side by side and
\* completed in the opposite order of their submission
C23_Witness ==
  /\ gpc = "stack"
  /\ Len(futures) = 2
  /\ finish_order = <<2, 1>>

\* the positions at which an invocation of query_engine_build is over:
\* never made, rejected by the name check, returned, or raised out of the
\* except clause (after the rollback, or from one of its deletions)
Ended == {"idle", "rejected", "returned", "failed", "rollback_failed"}

\* the positions at which a call of _generate_index_data is over
IdxEnded == {"idle", "returned", "ValueError", "UnboundLocalError",
             "RuntimeError"}

\* C24: under fair scheduling every invocation of query_engine_build comes
\* to an end and so does every call of _generate_index_data; an invocation
\* is rejected only by its name check, so that one that passed it ends by
\* returning or by raising out of the except clause, where the rollback was
\* attempted; and every iteration of the loop of _generate_index_data moves
\* chunk_index forward, by at least one chunk and not past the end.
C24_Terminates ==
  /\ <>(/\ \A p \in Builds : build[p].pc \in Ended
        /\ gpc \in IdxEnded)
  /\ [][/\ \A p \in Builds :
            (build'[p].pc = "rejected" /\ build[p].pc # "rejected")
               => build[p].pc = "start"
        /\ (gpc = "stack" /\ gpc' = "while")
             => /\ chunk_index' > chunk_index
                /\ chunk_index' <= Len(doc_chunks)]_vars

\* one invocation returned its engine and lists while the other one, racing
\* with it, raised after its rollback
C24_Witness ==
  \E p, q \in Builds :
    /\ build[p].pc = "returned"
    /\ build[p].docs_processed # <<>>
    /\ build[q].pc = "failed"
    /\ build[q].exc # ""

\* the urls of the QueryDocument objects in docs_processed, in order
ProcessedUrls(p) ==
  [j \in 1..Len(build[p].docs_processed) |-> build[p].docs_processed[j].doc_url]

\* s is strictly increasing: enumeration order, nothing twice
Increasing(s) == \A i, j \in 1..Len(s) : i < j => s[i] < s[j]

\* C25: when a build has returned, the urls of docs_processed and those of
\* docs_not_processed are each in enumeration order without repetition,
\* have no url in common and together are the enumerated documents; and a
\* url is in docs_processed exactly if the store holds a QueryDocument with
\* that url for the engine the build returns.
C25_ListsPartitionCorpus ==
  \A p \in Builds :
    build[p].pc = "returned"
      => /\ Increasing(ProcessedUrls(p))
         /\ Increasing(build[p].docs_not_processed)
         /\ Range(ProcessedUrls(p)) \cap Range(build[p].docs_not_processed) = {}
         /\ Range(ProcessedUrls(p)) \cup Range(build[p].docs_not_processed)
              = 1..build[p].ndocs
         /\ \A u \in 1..build[p].ndocs :
              u \in Range(ProcessedUrls(p))
                <=> \E d \in DocsOf(build[p].q_engine) : d.doc_url = u

\* the chunk ids written to the embedding files of the documents that
\* invocation p processed
IdsOfBuild(p) ==
  UNION {build[p].handled[i].written :
           i \in {j \in 1..Len(build[p].handled) :
                    build[p].handled[j].url \in Range(ProcessedUrls(p))}}

\* C26: when a build has returned, every chunk id it wrote to an embedding
\* file is found by find_by_index under the id of the engine it returns,
\* and the QueryDocument of every chunk record so found is found by
\* find_by_id: resolving that id in a query does not raise ResourceNotFound.
C26_StagedIdsResolve ==
  \A p \in Builds :
    build[p].pc = "returned"
      => \A id \in IdsOfBuild(p) :
           /\ FindByIndex(build[p].q_engine, id) # {}
           /\ \A c \in FindByIndex(build[p].q_engine, id) :
                FindById(c.query_document_id) # {}

\* C27: every QueryDocument and QueryDocumentChunk record an invocation
\* saves carries the id of the QueryEngine record that invocation created;
\* the deletions of its except clause remove records that it saved itself
\* and no others, and leave none of its own behind.
C27_OwnRecordsOnly ==
  [][\A p \in Builds :
       build'[p] # build[p]
         => /\ \A d \in qdocs' \ qdocs :
                 d.query_engine_id = build[p].q_engine
            /\ \A c \in qchunks' \ qchunks :
                 c.query_engine_id = build[p].q_engine
            /\ \A d \in qdocs \ qdocs' : d.id[1] = p
            /\ \A c \in qchunks \ qchunks' : c.query_document_id[1] = p
            /\ build'[p].pc = "rollback_chunks"
                 => \A d \in qdocs' : d.id[1] # p
            /\ build'[p].pc = "rollback_engine"
                 => \A c \in qchunks' : c.query_document_id[1] # p]_vars

\* the positions of query_generate after the chat model has answered, at
\* each of its writes to the store
QuerySaving == {"save_refs", "save_query", "update_history"}

\* C28: no step of a query changes a QueryEngine, QueryDocument or
\* QueryDocumentChunk record; QueryReference, QueryResult and UserQuery
\* records are written only after the chat model has answered, which it is
\* asked to do only when every neighbor has been resolved; so a query that
\* raises ResourceNotFound while resolving has not called the chat model
\* and has created or updated no record, then or later.
C28_FailedQueryWritesNothing ==
  [][/\ UNCHANGED <<engines, qdocs, qchunks>>
     /\ (qrefs' # qrefs \/ qresults' # qresults \/ user_query' # user_query)
          => qpc \in QuerySaving
     /\ (qpc' \in QuerySaving /\ qpc \notin QuerySaving)
          => /\ qpc = "matches"
             /\ nmatched = Len(match_indexes)
             /\ q_exc = ""
     /\ q_exc' = "StoreError" => qpc \in QuerySaving
     /\ q_exc' = "LLMError" => nmatched = Len(match_indexes)
     /\ q_exc' = "ResourceNotFound"
          => /\ qpc' = "raised"
             /\ nmatched' < Len(match_indexes')
             /\ qrefs' = <<>>
             /\ qresults' = <<>>
             /\ UNCHANGED user_query
             /\ user_query.history = <<>>]_vars

\* the second neighbor could not be resolved after the first one was: the
\* query raised ResourceNotFound with one reference assembled
C28_Witness ==
  /\ q_exc = "ResourceNotFound"
  /\ nmatched = 1
  /\ Len(query_references) = 1
  /\ qrefs = <<>>
  /\ ~user_query.saved

====
